---------------------------- MODULE Spec2Model ----------------------------
(***************************************************************************)
(* Hand-gesture controlled particle simulation: OptimizedParticleSystem    *)
(* (per-instance particle store, behaviour engine, frame loop, teardown),  *)
(* OptimizedLiquidSimulation (orchestrator), MediaPipeHandler (control     *)
(* source) and the OptimizedHandDetection component that hosts them.       *)
(*                                                                         *)
(* Numbers.  The program computes with IEEE doubles.  The model computes   *)
(* with decimal fixed-point numbers: the integer n stands for the real     *)
(* n / Unit.  Products, quotients and square roots are rounded to the      *)
(* nearest multiple of 1 / Unit, so every arithmetic step of the code has  *)
(* a counterpart here with an error of at most one unit in the last place. *)
(* Times are integer milliseconds, as performance.now() reports them.      *)
(***************************************************************************)
EXTENDS Integers, Sequences, FiniteSets, TLC

-----------------------------------------------------------------------------
(* Fixed-point arithmetic                                                  *)

\* Splitting base of the wide product, and the fixed-point scale (1e5).
Kilo == 10 * 100
Unit == 100 * Kilo

Abs(a) == IF a < 0 THEN 0 - a ELSE a
Sgn(a) == IF a < 0 THEN 0 - 1 ELSE IF a > 0 THEN 1 ELSE 0
Min(a, b) == IF a < b THEN a ELSE b

\* A decimal literal: Dec(1, 20) is 1.20, Dec(0, 1) is 0.01 (two decimals).
Dec(whole, hundredths) == whole * Unit + hundredths * Kilo

\* a * b for non-negative fixed-point a, b, rounded to nearest; the product
\* is built from three-digit limbs so that no intermediate exceeds 2^31.
MulU(a, b) ==
  LET a1 == a \div Kilo
      a0 == a % Kilo
      b1 == b \div Kilo
      b0 == b % Kilo
      m  == a1 * b0 + a0 * b1
  IN  a1 * b1 * 10 + (m \div 100)
        + (((m % 100) * Kilo + a0 * b0 + (Unit \div 2)) \div Unit)

\* Number * Number
Mul(a, b) == Sgn(a) * Sgn(b) * MulU(Abs(a), Abs(b))

\* Decimal long division of t / b over the last five digits of a quotient:
\* two digits, two digits, one digit, and the rounding.  Every dividend is
\* below 100 * b, which stays below 2^31 for b up to 214 units.
LastDigit(t, b, round) ==
  (t \div b) + (IF round /\ 2 * (t % b) >= b THEN 1 ELSE 0)
MidDigits(t, b, round) ==
  (t \div b) * 10 + LastDigit((t % b) * 10, b, round)
TopDigits(t, b, round) ==
  (t \div b) * Kilo + MidDigits((t % b) * 100, b, round)

\* a / b for a >= 0, b > 0 (fixed point), rounded to nearest or down.
DivU(a, b, round) == (a \div b) * Unit + TopDigits((a % b) * 100, b, round)

\* Number / Number; the callers guard b # 0 as the code does.
Div(a, b) == Sgn(a) * Sgn(b) * DivU(Abs(a), Abs(b), TRUE)

\* Math.sqrt by Newton's iteration on integers: the largest x with
\* x * x <= a * Unit.  SqrtCap exceeds the root of every representable a.
SqrtCap == 14700 * Kilo
RECURSIVE SqrtIter(_, _)
SqrtIter(a, x) ==
  LET y == (x + DivU(a, x, FALSE)) \div 2
  IN  IF y < x THEN SqrtIter(a, y) ELSE x

Sqrt(a) ==
  IF a <= 0 THEN 0
  ELSE SqrtIter(a, IF a >= Unit THEN Min(a, SqrtCap) ELSE Unit)

\* Math.PI and its multiples, to five decimals.
Pi == 3 * Unit + 14159
TwoPi == 6 * Unit + 28319
HalfPi == Unit + 57080

\* The sine series through x^11 on [-pi/2, pi/2] (Horner's scheme).
SinSeries(x) ==
  LET x2 == Mul(x, x)
      t5 == Unit - (x2 \div 110)
      t4 == Unit - (Mul(x2, t5) \div 72)
      t3 == Unit - (Mul(x2, t4) \div 42)
      t2 == Unit - (Mul(x2, t3) \div 20)
      t1 == Unit - (Mul(x2, t2) \div 6)
  IN  Mul(x, t1)

\* Math.sin: the argument is reduced to [-pi, pi), then folded to
\* [-pi/2, pi/2] with sin(pi - x) = sin(x).
Sin(x) ==
  LET r == ((x + Pi) % TwoPi) - Pi
      f == IF r > HalfPi THEN Pi - r
           ELSE IF r < 0 - HalfPi THEN 0 - Pi - r ELSE r
  IN  SinSeries(f)

\* Math.cos
Cos(x) == Sin(x + HalfPi)

-----------------------------------------------------------------------------
(* THREE.Vector3                                                           *)

Vec(a, b, c) == [x |-> a, y |-> b, z |-> c]
Zero3 == Vec(0, 0, 0)

VAdd(a, b) == Vec(a.x + b.x, a.y + b.y, a.z + b.z)
VSub(a, b) == Vec(a.x - b.x, a.y - b.y, a.z - b.z)
MultiplyScalar(a, s) == Vec(Mul(a.x, s), Mul(a.y, s), Mul(a.z, s))
VDot(a, b) == Mul(a.x, b.x) + Mul(a.y, b.y) + Mul(a.z, b.z)
CrossVectors(a, b) ==
  Vec(Mul(a.y, b.z) - Mul(a.z, b.y),
      Mul(a.z, b.x) - Mul(a.x, b.z),
      Mul(a.x, b.y) - Mul(a.y, b.x))
LengthSq(a) == VDot(a, a)
Length(a) == Sqrt(LengthSq(a))
DistanceTo(a, b) == Length(VSub(a, b))

\* divideScalar(len || 1)
DivideScalar(a, len) ==
  IF len = 0 THEN a ELSE Vec(Div(a.x, len), Div(a.y, len), Div(a.z, len))

\* normalize() is divideScalar(length() || 1): the zero vector stays zero.
Normalize(a) == DivideScalar(a, Length(a))

\* a.lerp(b, alpha): a += (b - a) * alpha, alpha not clamped.
VLerp(a, b, alpha) == VAdd(a, MultiplyScalar(VSub(b, a), alpha))

-----------------------------------------------------------------------------
(* Bounds of the model                                                     *)

\* Particles per instance (params.count is 800 to 2000 in the source).
Count == 2
\* Calls of startAnimation and display frames per behaviour.
MaxTicks == 2

-----------------------------------------------------------------------------
(* ParticleSystemConfig and HandControl                                    *)

\* An optional field of a config: `p.f ?? d`.
OrDefault(p, f, d) == IF f \in DOMAIN p THEN p[f] ELSE d

\* The four configurations OptimizedLiquidSimulation constructs, with the
\* particle count bounded.
ResponsiveConfig ==
  [behavior |-> "responsive", count |-> Count, size |-> Dec(0, 40),
   boundary |-> 25 * Unit, viscosity |-> Dec(0, 85),
   attractionStrength |-> Dec(1, 50), interactionRadius |-> 15 * Unit]
CohesiveConfig ==
  [behavior |-> "cohesive", count |-> Count, size |-> Dec(0, 60),
   boundary |-> 20 * Unit, viscosity |-> Dec(0, 95),
   cohesionStrength |-> Dec(0, 30), cohesionRadius |-> 5 * Unit]
NeedleSphereConfig ==
  [behavior |-> "needleSphere", count |-> Count, size |-> Dec(0, 50),
   boundary |-> 60 * Unit, viscosity |-> Dec(0, 90),
   baseRadius |-> 8 * Unit, radiusHandScale |-> Dec(1, 20),
   outerRadiusMultiplier |-> Dec(1, 90), needleLength |-> 4 * Unit]
NeedleSwarmConfig ==
  [behavior |-> "needleSwarm", count |-> Count, size |-> Dec(0, 40),
   boundary |-> 30 * Unit, viscosity |-> Dec(0, 88),
   needleLength |-> Dec(3, 50)]
\* A needle-sphere configuration that leaves every optional field unset.
NeedleSphereDefaults ==
  [behavior |-> "needleSphere", count |-> Count, size |-> Dec(0, 50),
   boundary |-> 60 * Unit, viscosity |-> Dec(0, 90)]

\* A hand descriptor as the particle system reads it (palm only; the
\* fingers are carried by the control source and never read here).
Hand(px, py, pz, idx) ==
  [palm |-> Vec(px * Unit, py * Unit, pz * Unit), handIndex |-> idx]

\* The snapshots the control source delivers in the model: no hand, one
\* hand, two hands.
Snapshots ==
  { << >>,
    << Hand(3, 4, 0, 0) >>,
    << Hand(0 - 5, 0, 0, 0), Hand(5, 0, 0, 1) >> }

-----------------------------------------------------------------------------
(* Particle store                                                          *)

\* `undefined`, for assignedCenterIndex.
Undefined == 0 - 1

\* The values Math.random() returns in the model, as nine-draw seeds of one
\* particle (three for position, three for velocity, three for direction).
Seeds ==
  << << Dec(0, 50), Dec(0, 50), Dec(0, 50),
        Dec(0, 75), Dec(0, 50), Dec(0, 25),
        Dec(0, 80), Dec(0, 90), Dec(0, 50) >>,
     << Dec(0, 51), Dec(0, 50), Dec(0, 60),
        Dec(0, 0), Dec(0, 99), Dec(0, 50),
        Dec(0, 50), Dec(0, 99), Dec(0, 50) >>,
     << Dec(0, 0), Dec(0, 99), Dec(0, 45),
        Dec(0, 0), Dec(0, 10), Dec(0, 60),
        Dec(0, 10), Dec(0, 50), Dec(0, 20) >> >>

\* (Math.random() - 0.5) * scale
Centered(r, scale) == Mul(r - Dec(0, 50), scale)

\* NewParticle with the group taken from the 1-based particle number.
NewParticleOneBased(params, i, r) ==
  [position |-> Vec(Centered(r[1], params.boundary * 2),
                    Centered(r[2], params.boundary * 2),
                    Centered(r[3], params.boundary * 2)),
   velocity |-> Vec(Centered(r[4], Dec(0, 80)), Centered(r[5], Dec(0, 80)),
                    Centered(r[6], Dec(0, 80))),
   direction |-> Normalize(Vec(r[7] - Dec(0, 50), r[8] - Dec(0, 50),
                               r[9] - Dec(0, 50))),
   groupIndex |-> (i + 1) % 2,
   assignedCenterIndex |-> Undefined]

\* One iteration of initParticles: particle number i (0-based) from nine
\* draws of Math.random().
NewParticle(params, i, r) ==
  [position |-> Vec(Centered(r[1], params.boundary * 2),
                    Centered(r[2], params.boundary * 2),
                    Centered(r[3], params.boundary * 2)),
   velocity |-> Vec(Centered(r[4], Dec(0, 80)), Centered(r[5], Dec(0, 80)),
                    Centered(r[6], Dec(0, 80))),
   direction |-> Normalize(Vec(r[7] - Dec(0, 50), r[8] - Dec(0, 50),
                               r[9] - Dec(0, 50))),
   groupIndex |-> i % 2,
   assignedCenterIndex |-> Undefined]

initParticles(params, rnd) ==
  [k \in 1..params.count |-> NewParticle(params, k - 1, rnd[k])]

-----------------------------------------------------------------------------
(* Needle-sphere behaviour                                                 *)

\* The palm of a hand descriptor as a Vector3.
PalmOf(control) == Vec(control.palm.x, control.palm.y, control.palm.z)

\* NeedleSphereCenter following the first hand instead of the midpoint.
CenterAtFirstPalm(handControls) ==
  IF Len(handControls) >= 1 THEN PalmOf(handControls[1]) ELSE Zero3

\* The dynamic center of the needle sphere.
NeedleSphereCenter(handControls) ==
  IF Len(handControls) = 2
    THEN MultiplyScalar(VAdd(PalmOf(handControls[1]), PalmOf(handControls[2])),
                        Dec(0, 50))
  ELSE IF Len(handControls) = 1 THEN PalmOf(handControls[1])
  ELSE Zero3

\* handDistance: the distance that drives the radius.
NeedleSphereHandDistance(handControls) ==
  IF Len(handControls) = 2
    THEN DistanceTo(PalmOf(handControls[1]), PalmOf(handControls[2]))
  ELSE IF Len(handControls) = 1 THEN 15 * Unit
  ELSE 10 * Unit

\* effectiveRadius = baseRadius + handDistance * radiusHandScale
NeedleSphereRadius(params, handDistance) ==
  OrDefault(params, "baseRadius", 8 * Unit)
    + Mul(handDistance, OrDefault(params, "radiusHandScale", Dec(1, 20)))

\* targetRadiusForParticle = effectiveRadius * shellMultiplier
ShellRadius(radius, groupIndex, outerRadiusMultiplier) ==
  Mul(radius, IF groupIndex = 0 THEN Unit ELSE outerRadiusMultiplier)

\* RadialOrStored without the fallback to the stored direction.
RadialAlways(toParticle, direction) == Normalize(toParticle)

\* The unit direction a particle is projected along: from the center to the
\* particle, or the stored direction when the particle is at the center.
RadialOrStored(toParticle, direction) ==
  IF Length(toParticle) > Dec(0, 1) THEN Normalize(toParticle)
  ELSE Normalize(direction)

ToSurface(particle, center) ==
  RadialOrStored(VSub(particle.position, center), particle.direction)

\* The first tangent: toSurface x up, or toSurface x (1,0,0) when toSurface
\* is near-vertical; normalized.
CrossOrFallback(toSurface, t) ==
  Normalize(IF LengthSq(t) < Dec(0, 1)
              THEN CrossVectors(toSurface, Vec(Unit, 0, 0)) ELSE t)

Tangent1(toSurface) ==
  CrossOrFallback(toSurface, CrossVectors(toSurface, Vec(0, Unit, 0)))

\* swimDirection = tangent1 * cos(phase) * swimSpeed
\*               + tangent2 * sin(phase) * swimSpeed
SwimAlong(toSurface, tangent1, phase, swimSpeed) ==
  VAdd(MultiplyScalar(tangent1, Mul(Cos(phase), swimSpeed)),
       MultiplyScalar(Normalize(CrossVectors(toSurface, tangent1)),
                      Mul(Sin(phase), swimSpeed)))

SwimDirection(toSurface, phase, swimSpeed) ==
  SwimAlong(toSurface, Tangent1(toSurface), phase, swimSpeed)

\* TangentialVelocity without the removal of the radial component.
VelocityKeptRadial(velocity, toSurface, swimDirection, deltaTime) ==
  VLerp(velocity, swimDirection, deltaTime * 3)

\* The velocity with its component along toSurface removed, blended towards
\* the swim direction by deltaTime * 3.
TangentialVelocity(velocity, toSurface, swimDirection, deltaTime) ==
  VLerp(VSub(velocity, MultiplyScalar(toSurface, VDot(velocity, toSurface))),
        swimDirection, deltaTime * 3)

\* Reproject without the translation back to the center.
ReprojectAboutOrigin(position, direction, center, radius) ==
  IF LengthSq(VSub(position, center)) > 10
    THEN MultiplyScalar(Normalize(VSub(position, center)), radius)
  ELSE MultiplyScalar(Normalize(direction), radius)

\* Re-projection of a moved position onto the shell of the given radius; the
\* stored direction is the fallback next to the center.
Reproject(position, direction, center, radius) ==
  IF LengthSq(VSub(position, center)) > 10
    THEN VAdd(MultiplyScalar(Normalize(VSub(position, center)), radius),
              center)
  ELSE VAdd(MultiplyScalar(Normalize(direction), radius), center)

\* direction.copy(normalize(position - center)) unless that is too short.
UpdatedDirection(position, direction, center) ==
  IF LengthSq(VSub(position, center)) > 10
    THEN Normalize(VSub(position, center))
  ELSE direction

\* The end of an iteration: the particle at its re-projected position, with
\* its new velocity and its stored direction brought up to date.
Settle(particle, position, velocity, center) ==
  [particle EXCEPT !.position = position,
                   !.velocity = velocity,
                   !.direction = UpdatedDirection(position,
                                                  particle.direction, center)]

\* The tangential move: from the surface position along the velocity for
\* deltaTime, then back onto the shell.
MoveOnShell(particle, toSurface, velocity, center, targetRadius, deltaTime) ==
  Settle(particle,
         Reproject(VAdd(VAdd(MultiplyScalar(toSurface, targetRadius), center),
                        MultiplyScalar(velocity, deltaTime)),
                   particle.direction, center, targetRadius),
         velocity, center)

\* phase = i * 0.01 + time * 0.4, and the velocity of the tick.
SwimOnShell(particle, i, toSurface, center, targetRadius, deltaTime, time) ==
  MoveOnShell(particle, toSurface,
              TangentialVelocity(
                particle.velocity, toSurface,
                SwimDirection(toSurface, i * Kilo + Mul(time, Dec(0, 40)),
                              4 * Unit),
                deltaTime),
              center, targetRadius, deltaTime)

\* One iteration of the loop of updateNeedleSphere: particle number i
\* (0-based) after the tick.  time and deltaTime are in seconds.
NeedleSphereStep(particle, i, center, targetRadius, deltaTime, time) ==
  SwimOnShell(particle, i, ToSurface(particle, center), center, targetRadius,
              deltaTime, time)

\* The particle loop of updateNeedleSphere.
NeedleSphereLoop(particles, center, radius, outer, deltaTime, time) ==
  [k \in 1..Len(particles) |->
     NeedleSphereStep(particles[k], k - 1, center,
                      ShellRadius(radius, particles[k].groupIndex, outer),
                      deltaTime, time)]

\* updateNeedleSphere: the particles after the tick.
updateNeedleSphere(params, particles, handControls, deltaTime, time) ==
  NeedleSphereLoop(
    particles, NeedleSphereCenter(handControls),
    NeedleSphereRadius(params, NeedleSphereHandDistance(handControls)),
    OrDefault(params, "outerRadiusMultiplier", Dec(1, 80)),
    deltaTime, time)

-----------------------------------------------------------------------------
(* Needle-swarm behaviour                                                  *)

\* centers: one Vector3 per hand palm.
SwarmCenters(handControls) ==
  [j \in 1..Len(handControls) |-> PalmOf(handControls[j])]

\* The loop `for j: if (d < minDist) { minDist = d; nearestIndex = j }`,
\* from index j (0-based) on; minDist < 0 stands for Infinity.
RECURSIVE NearestFrom(_, _, _, _, _)
RECURSIVE NearestCompare(_, _, _, _, _, _)
NearestFrom(position, centers, j, minDist, nearestIndex) ==
  IF j >= Len(centers) THEN nearestIndex
  ELSE NearestCompare(position, centers, j, minDist, nearestIndex,
                      DistanceTo(position, centers[j + 1]))

\* NearestCompare that takes a center at the same distance too, so that
\* the last of the nearest centers wins.
NearestCompareLast(position, centers, j, minDist, nearestIndex, d) ==
  IF minDist < 0 \/ d <= minDist
    THEN NearestFrom(position, centers, j + 1, d, j)
  ELSE NearestFrom(position, centers, j + 1, minDist, nearestIndex)

\* The body of that loop for center j at distance d.
NearestCompare(position, centers, j, minDist, nearestIndex, d) ==
  IF minDist < 0 \/ d < minDist
    THEN NearestFrom(position, centers, j + 1, d, j)
  ELSE NearestFrom(position, centers, j + 1, minDist, nearestIndex)

\* CloserFrom without the 20% margin: any closer center is taken.
RECURSIVE CloserFromNoMargin(_, _, _, _, _)
CloserFromNoMargin(position, centers, j, assigned, currentDist) ==
  IF j >= Len(centers) THEN assigned
  ELSE IF j = assigned
         THEN CloserFromNoMargin(position, centers, j + 1, assigned,
                                 currentDist)
  ELSE IF DistanceTo(position, centers[j + 1]) < currentDist THEN j
  ELSE CloserFromNoMargin(position, centers, j + 1, assigned, currentDist)

\* The loop that looks for a center at least 20% closer than the current
\* one, from index j (0-based) on; it stops at the first one found.
RECURSIVE CloserFrom(_, _, _, _, _)
CloserFrom(position, centers, j, assigned, currentDist) ==
  IF j >= Len(centers) THEN assigned
  ELSE IF j = assigned
         THEN CloserFrom(position, centers, j + 1, assigned, currentDist)
  ELSE IF DistanceTo(position, centers[j + 1]) < Mul(currentDist, Dec(0, 80))
         THEN j
  ELSE CloserFrom(position, centers, j + 1, assigned, currentDist)

\* Step 1 of updateNeedleSwarm for one particle: its assignedCenterIndex.
AssignCenter(particle, centers) ==
  IF particle.assignedCenterIndex = Undefined
       \/ particle.assignedCenterIndex >= Len(centers)
    THEN NearestFrom(particle.position, centers, 0, 0 - 1, 0)
  ELSE CloserFrom(particle.position, centers, 0, particle.assignedCenterIndex,
                  DistanceTo(particle.position,
                             centers[particle.assignedCenterIndex + 1]))

\* Fast convergence: 40% of the way to the surface when more than 0.5 off
\* the shell, onto the surface otherwise.
Converge(position, surfacePos, currentDist, targetRadius) ==
  IF Abs(currentDist - targetRadius) > Dec(0, 50)
    THEN VLerp(position, surfacePos, Dec(0, 40))
  ELSE surfacePos

\* SwarmMove that leaves the moved particle where the move took it.
SwarmMoveUnprojected(particle, converged, direction, velocity, center, targetRadius, deltaTime) ==
  [particle EXCEPT
     !.position = VAdd(converged, MultiplyScalar(velocity, deltaTime)),
     !.velocity = velocity,
     !.direction = direction]

\* The swarm tick of a particle once its convergence position is known:
\* direction update, tangential velocity (phase = i * 0.01 + time * 0.5),
\* move, and re-projection with the updated direction as the fallback.
SwarmMove(particle, converged, direction, velocity, center, targetRadius, deltaTime) ==
  [particle EXCEPT
     !.position = Reproject(VAdd(converged,
                                 MultiplyScalar(velocity, deltaTime)),
                            direction, center, targetRadius),
     !.velocity = velocity,
     !.direction = direction]

SwarmSwim(particle, i, toSurface, converged, center, targetRadius, deltaTime, time) ==
  SwarmMove(particle, converged,
            UpdatedDirection(converged, particle.direction, center),
            TangentialVelocity(
              particle.velocity, toSurface,
              SwimDirection(toSurface, i * Kilo + Mul(time, Dec(0, 50)),
                            5 * Unit),
              deltaTime),
            center, targetRadius, deltaTime)

SwarmConverge(particle, i, toSurface, currentDist, center, targetRadius, deltaTime, time) ==
  SwarmSwim(particle, i, toSurface,
            Converge(particle.position,
                     VAdd(MultiplyScalar(toSurface, targetRadius), center),
                     currentDist, targetRadius),
            center, targetRadius, deltaTime, time)

\* targetRadius = sphereRadius * shell
SwarmRadius(groupIndex) ==
  Mul(12 * Unit, IF groupIndex = 0 THEN Unit ELSE Dec(1, 80))

\* One iteration of the sphere-formation loop of updateNeedleSwarm (the
\* zero-hand loop and step 2 of the hand loop are the same code): particle
\* number i (0-based) around the given center.
NeedleSwarmStep(particle, i, center, deltaTime, time) ==
  SwarmConverge(particle, i, ToSurface(particle, center),
                Length(VSub(particle.position, center)), center,
                SwarmRadius(particle.groupIndex), deltaTime, time)

\* Step 1 for one particle: the particle with its center assigned.
Assigned(particle, centers) ==
  [particle EXCEPT !.assignedCenterIndex = AssignCenter(particle, centers)]

\* Step 2 for one particle whose center is assigned.
FollowCenter(particle, i, centers, deltaTime, time) ==
  NeedleSwarmStep(particle, i, centers[particle.assignedCenterIndex + 1],
                  deltaTime, time)

\* The two loops of updateNeedleSwarm with hands.  Step 1 reads only the
\* particle's own position, which step 2 has not changed yet, so the loops
\* commute with the per-particle composition.
SwarmLoop(particles, centers, deltaTime, time) ==
  [k \in 1..Len(particles) |->
     FollowCenter(Assigned(particles[k], centers), k - 1, centers, deltaTime,
                  time)]

\* updateNeedleSwarm that drops the assignments in a tick without hands.
updateNeedleSwarmForgets(particles, handControls, deltaTime, time) ==
  IF Len(handControls) = 0
    THEN [k \in 1..Len(particles) |->
            [NeedleSwarmStep(particles[k], k - 1, Zero3, deltaTime, time)
               EXCEPT !.assignedCenterIndex = Undefined]]
  ELSE SwarmLoop(particles, SwarmCenters(handControls), deltaTime, time)

\* updateNeedleSwarm: the particles after the tick.
updateNeedleSwarm(particles, handControls, deltaTime, time) ==
  IF Len(handControls) = 0
    THEN [k \in 1..Len(particles) |->
            NeedleSwarmStep(particles[k], k - 1, Zero3, deltaTime, time)]
  ELSE SwarmLoop(particles, SwarmCenters(handControls), deltaTime, time)

-----------------------------------------------------------------------------
(* Responsive and cohesive behaviour                                       *)

\* A pull along toPalm with linear falloff (zero outside the radius).
Attraction(toPalm, dist, strength, radiusOr0, radiusOr1) ==
  IF dist < radiusOr0
    THEN MultiplyScalar(Normalize(toPalm),
                        Mul(strength, Unit - Div(dist, radiusOr1)))
  ELSE Zero3

\* PalmForce with the pull taken from the palm to the particle.
PalmForceAway(params, position, control) ==
  Attraction(VSub(position, PalmOf(control)),
             DistanceTo(PalmOf(control), position),
             OrDefault(params, "attractionStrength", 0),
             OrDefault(params, "interactionRadius", 0),
             OrDefault(params, "interactionRadius", Unit))

\* The attraction of one palm on a particle: inside interactionRadius ?? 0
\* it is attractionStrength ?? 0 times 1 - dist / (interactionRadius ?? 1).
PalmForce(params, position, control) ==
  Attraction(VSub(PalmOf(control), position),
             DistanceTo(PalmOf(control), position),
             OrDefault(params, "attractionStrength", 0),
             OrDefault(params, "interactionRadius", 0),
             OrDefault(params, "interactionRadius", Unit))

\* The sum of the palm forces from hand j (1-based) on.
RECURSIVE PalmForces(_, _, _, _)
PalmForces(params, position, handControls, j) ==
  IF j > Len(handControls) THEN Zero3
  ELSE VAdd(PalmForce(params, position, handControls[j]),
            PalmForces(params, position, handControls, j + 1))

\* handleResponsiveBehavior: the force on a particle; jitter holds the three
\* draws of Math.random().
handleResponsiveBehavior(params, particle, handControls, jitter) ==
  VAdd(PalmForces(params, particle.position, handControls, 1),
       Vec(Centered(jitter[1], Dec(0, 5)), Centered(jitter[2], Dec(0, 5)),
           Centered(jitter[3], Dec(0, 5))))

\* The cohesion of particle `other` on a particle.
CohesionForce(params, position, other) ==
  Attraction(VSub(other.position, position),
             DistanceTo(other.position, position),
             OrDefault(params, "cohesionStrength", 0),
             OrDefault(params, "cohesionRadius", 0),
             OrDefault(params, "cohesionRadius", Unit))

\* CohesionForces over every particle instead of every tenth one.
RECURSIVE CohesionForcesEveryParticle(_, _, _, _, _)
CohesionForcesEveryParticle(params, particles, position, index, i) ==
  IF i >= Len(particles) THEN Zero3
  ELSE VAdd(IF i = index THEN Zero3
            ELSE CohesionForce(params, position, particles[i + 1]),
            CohesionForcesEveryParticle(params, particles, position, index,
                                        i + 1))

\* `for (i = 0; i < length; i += checkStep)`: the sum of the cohesion forces
\* of the sampled particles from index i (0-based) on, skipping `index`.
checkStep == 10
RECURSIVE CohesionForces(_, _, _, _, _)
CohesionForces(params, particles, position, index, i) ==
  IF i >= Len(particles) THEN Zero3
  ELSE VAdd(IF i = index THEN Zero3
            ELSE CohesionForce(params, position, particles[i + 1]),
            CohesionForces(params, particles, position, index, i + checkStep))

\* handleCohesiveBehavior: the force on particle number index (0-based).
handleCohesiveBehavior(params, particles, particle, index) ==
  VAdd(MultiplyScalar(particle.position, 0 - Dec(0, 1)),
       CohesionForces(params, particles, particle.position, index, 0))

\* ClampAxis that tests the coordinate without Math.abs.
ClampAxisUpperOnly(p, v, boundary) ==
  IF p > boundary THEN << Sgn(p) * boundary, Mul(v, 0 - Dec(0, 80)) >>
  ELSE << p, v >>

\* One axis of applyBoundaries: the clamped coordinate and its velocity.
ClampAxis(p, v, boundary) ==
  IF Abs(p) > boundary THEN << Sgn(p) * boundary, Mul(v, 0 - Dec(0, 80)) >>
  ELSE << p, v >>

Clamped(particle, ax, ay, az) ==
  [particle EXCEPT !.position = Vec(ax[1], ay[1], az[1]),
                   !.velocity = Vec(ax[2], ay[2], az[2])]

\* applyBoundaries as an else-if chain: the first axis beyond the boundary
\* is clamped, the axes after it are left alone.
applyBoundariesElseIf(particle, boundary) ==
  IF Abs(particle.position.x) > boundary
    THEN Clamped(particle,
                 ClampAxis(particle.position.x, particle.velocity.x, boundary),
                 << particle.position.y, particle.velocity.y >>,
                 << particle.position.z, particle.velocity.z >>)
  ELSE IF Abs(particle.position.y) > boundary
    THEN Clamped(particle,
                 << particle.position.x, particle.velocity.x >>,
                 ClampAxis(particle.position.y, particle.velocity.y, boundary),
                 << particle.position.z, particle.velocity.z >>)
  ELSE Clamped(particle,
               << particle.position.x, particle.velocity.x >>,
               << particle.position.y, particle.velocity.y >>,
               ClampAxis(particle.position.z, particle.velocity.z, boundary))

applyBoundaries(particle, boundary) ==
  Clamped(particle,
          ClampAxis(particle.position.x, particle.velocity.x, boundary),
          ClampAxis(particle.position.y, particle.velocity.y, boundary),
          ClampAxis(particle.position.z, particle.velocity.z, boundary))

\* position += velocity, then the boundary step.
Advance(particle, velocity, boundary) ==
  applyBoundaries([particle EXCEPT
                     !.velocity = velocity,
                     !.position = VAdd(particle.position, velocity)],
                  boundary)

\* Integrate with the viscosity applied before the force is added.
IntegrateViscosityFirst(params, particle, totalForce) ==
  Advance(particle,
          VAdd(MultiplyScalar(particle.velocity, params.viscosity),
               totalForce),
          params.boundary)

\* The integration of one particle: velocity += force, velocity *=
\* viscosity, position += velocity, then the boundary step.
Integrate(params, particle, totalForce) ==
  Advance(particle,
          MultiplyScalar(VAdd(particle.velocity, totalForce),
                         params.viscosity),
          params.boundary)

\* The force on particle k (1-based) of the store, by behaviour.
TotalForce(params, particles, handControls, jitter, k) ==
  IF params.behavior = "responsive"
    THEN handleResponsiveBehavior(params, particles[k], handControls,
                                  jitter[k])
  ELSE handleCohesiveBehavior(params, particles, particles[k], k - 1)

\* The particle loop of update for the responsive and cohesive behaviours,
\* from particle k (1-based) on.  The loop updates the store in place, so
\* a particle sees the particles before it already moved.
RECURSIVE FluidLoop(_, _, _, _, _)
FluidLoop(params, particles, handControls, jitter, k) ==
  IF k > Len(particles) THEN particles
  ELSE FluidLoop(
         params,
         [particles EXCEPT ![k] =
            Integrate(params, particles[k],
                      TotalForce(params, particles, handControls, jitter, k))],
         handControls, jitter, k + 1)

-----------------------------------------------------------------------------
(* OptimizedParticleSystem: one simulation instance                        *)

\* The resources dispose() releases, in the order it releases them.
Resources ==
  << "skeletons", "geometry", "material", "skeletonMaterial", "mesh",
     "renderer" >>

\* updateSkeletons that puts the overlays on the palms themselves.
updateSkeletonsAtPalm(params, handControls) ==
  IF params.behavior # "needleSwarm" THEN << >>
  ELSE [j \in 1..Len(handControls) |-> PalmOf(handControls[j])]

\* updateSkeletons: one skeleton per hand in needleSwarm mode, placed 1.5
\* below the palm; none in the other modes.
updateSkeletons(params, handControls) ==
  IF params.behavior # "needleSwarm" THEN << >>
  ELSE [j \in 1..Len(handControls) |->
          Vec(handControls[j].palm.x, handControls[j].palm.y - Dec(1, 50),
              handControls[j].palm.z)]

\* The state of an instance after its constructor: rnd holds the draws of
\* Math.random() in initParticles, now is performance.now().
NewSystem(params, rnd, now) ==
  [params |-> params,
   particles |-> initParticles(params, rnd),
   handControls |-> << >>,
   lastTime |-> now,
   animationId |-> 0,
   skeletons |-> << >>,
   instanceMatrix |-> [k \in 1..params.count |-> Zero3],
   bufferOps |-> << >>,
   tickOps |-> << >>,
   size |-> << 300, 150 >>,
   teardown |-> << >>,
   usedAfterRelease |-> FALSE]

\* setHandControls that drops a list while it holds hands.
setHandControlsFirstWins(self, handControls) ==
  IF Len(self.handControls) > 0 THEN self
  ELSE [self EXCEPT !.handControls = handControls,
                    !.skeletons = updateSkeletons(self.params, handControls)]

\* setHandControls that keeps the hands it has when none are detected.
setHandControlsKeepLast(self, handControls) ==
  IF Len(handControls) = 0 THEN self
  ELSE [self EXCEPT !.handControls = handControls,
                    !.skeletons = updateSkeletons(self.params, handControls)]

setHandControls(self, handControls) ==
  [self EXCEPT !.handControls = handControls,
               !.skeletons = updateSkeletons(self.params, handControls)]

\* update that moves a responsive or cohesive particle by velocity *
\* deltaTime instead of by its velocity.
UpdatedParticlesPerSecond(self, deltaTime, time, jitter) ==
  IF self.params.behavior = "needleSphere"
    THEN updateNeedleSphere(self.params, self.particles, self.handControls,
                            deltaTime, time)
  ELSE IF self.params.behavior = "needleSwarm"
    THEN updateNeedleSwarm(self.particles, self.handControls, deltaTime, time)
  ELSE LET moved == FluidLoop(self.params, self.particles,
                              self.handControls, jitter, 1)
       IN [k \in 1..Len(moved) |->
             [moved[k] EXCEPT !.position =
                VAdd(self.particles[k].position,
                     MultiplyScalar(moved[k].velocity, deltaTime))]]

\* update(deltaTime): the particles after the tick, by behaviour.  jitter
\* holds the draws of Math.random() of the responsive behaviour.
UpdatedParticles(self, deltaTime, time, jitter) ==
  IF self.params.behavior = "needleSphere"
    THEN updateNeedleSphere(self.params, self.particles, self.handControls,
                            deltaTime, time)
  ELSE IF self.params.behavior = "needleSwarm"
    THEN updateNeedleSwarm(self.particles, self.handControls, deltaTime, time)
  ELSE FluidLoop(self.params, self.particles, self.handControls, jitter, 1)

\* BufferOps that marks the buffer dirty after every particle.
BufferOpsFlushEach(particles) ==
  [j \in 1..(2 * Len(particles)) |->
     IF j % 2 = 1 THEN [op |-> "setMatrixAt", index |-> (j - 1) \div 2]
     ELSE [op |-> "needsUpdate", index |-> 0 - 1]]

\* The operations of an update on the instance buffer of the mesh, in
\* their order: setMatrixAt(i, matrix) in the particle loop, then
\* instanceMatrix.needsUpdate = true.
BufferOps(particles) ==
  [j \in 1..(Len(particles) + 1) |->
     IF j <= Len(particles) THEN [op |-> "setMatrixAt", index |-> j - 1]
     ELSE [op |-> "needsUpdate", index |-> 0 - 1]]

\* update(deltaTime): skeletons, particles, and one instance transform per
\* particle (its translation is the particle's position).
Written(self, particles) ==
  [self EXCEPT
     !.skeletons = updateSkeletons(self.params, self.handControls),
     !.particles = particles,
     !.bufferOps = BufferOps(particles),
     !.instanceMatrix = [k \in 1..Len(particles) |-> particles[k].position]]

update(self, deltaTime, time, jitter) ==
  Written(self, UpdatedParticles(self, deltaTime, time, jitter))

\* animate that renders before it updates.
animateRenderFirst(self, now, jitter, rafId) ==
  [update([self EXCEPT !.lastTime = now],
          (now - self.lastTime) * (Unit \div Kilo),
          now * (Unit \div Kilo), jitter)
   EXCEPT !.animationId = rafId,
          !.tickOps = << "deltaTime", "lastTime", "render", "update",
                         "requestAnimationFrame" >>]

\* The body of the frame callback `animate` at time now (ms), up to the
\* request of the next frame, whose id is rafId.  tickOps records the
\* statements of the body in their order.
animate(self, now, jitter, rafId) ==
  [update([self EXCEPT !.lastTime = now],
          (now - self.lastTime) * (Unit \div Kilo),
          now * (Unit \div Kilo), jitter)
   EXCEPT !.animationId = rafId,
          !.tickOps = << "deltaTime", "lastTime", "update", "render",
                         "requestAnimationFrame" >>]

\* A frame callback that runs animate on an instance whose resources are
\* released uses them after their release.
callback(self, now, jitter, rafId) ==
  [animate(self, now, jitter, rafId) EXCEPT
     !.usedAfterRelease = self.usedAfterRelease \/ self.teardown # << >>]

\* handleResize: the camera aspect and the renderer size follow the canvas.
handleResize(self, canvasSize) == [self EXCEPT !.size = canvasSize]

\* stopAnimation: `if (this.animationId) { cancel; animationId = null }`.
stopAnimation(self) == [self EXCEPT !.animationId = 0]

\* The frame callbacks still pending after stopAnimation of instance s.
Cancelled(pending, s, self) ==
  IF self.animationId # 0
    THEN {cb \in pending : ~(cb.sys = s /\ cb.id = self.animationId)}
  ELSE pending

\* dispose that releases the renderer before the meshes.
disposeRendererFirst(self) ==
  [stopAnimation(self) EXCEPT
     !.skeletons = << >>,
     !.teardown = (IF self.animationId # 0 THEN << "cancelAnimationFrame" >>
                   ELSE << >>)
                    \o << "renderer", "skeletons", "geometry", "material",
                          "skeletonMaterial", "mesh" >>]

\* dispose: stopAnimation, then the skeletons, geometry, material,
\* skeleton material, mesh and renderer are released.  teardown records
\* the steps of the call in their order.
dispose(self) ==
  [stopAnimation(self) EXCEPT
     !.skeletons = << >>,
     !.teardown = (IF self.animationId # 0 THEN << "cancelAnimationFrame" >>
                   ELSE << >>) \o Resources]

-----------------------------------------------------------------------------
(* State                                                                   *)

VARIABLES
  sys,        \* the simulation instances: id -> OptimizedParticleSystem
  pending,    \* registered frame callbacks: records [id, sys]
  nextRaf,    \* the id the next requestAnimationFrame returns
  clock,      \* performance.now(), in ms
  ticks,      \* startAnimation calls and display frames so far (bound)
  frame,      \* per instance: what its last update read and computed
  delivered,  \* per instance: the calls of setHandControls, as observed
  component,  \* the OptimizedHandDetection component and its refs
  mediaPipe,  \* the MediaPipeHandler
  log         \* the steps the component's effect cleanup has taken

vars ==
  << sys, pending, nextRaf, clock, ticks, frame, delivered, component,
     mediaPipe, log >>

\* The variables of the hosting page, which a call on an instance leaves
\* alone.
page == << component, mediaPipe, log >>

\* Milliseconds between two display frames.
DeltaMs == {16, 100}

\* Sizes of a canvas: the default one and one after a resize.
CanvasSizes == { << 300, 150 >>, << 640, 480 >> }

\* The draws of Math.random() of one responsive tick, per particle.
Jitters == << << Dec(0, 50), Dec(0, 50), Dec(0, 50) >>,
              << Dec(0, 99), Dec(0, 0), Dec(0, 20) >> >>

\* The particles take the jitter draws in turn, from any first draw; only
\* the responsive behaviour draws.
JitterChoices(systems) ==
  { [k \in 1..Count |-> Jitters[((k + o) % Len(Jitters)) + 1]] :
      o \in IF \E s \in DOMAIN systems :
                  systems[s].params.behavior = "responsive"
               THEN 0..(Len(Jitters) - 1) ELSE {0} }

\* What an update of instance self reads and computes before its particle
\* loop: the snapshot and the store it starts from, and for the needle
\* sphere the center, the driving distance, the radius and each particle's
\* projection direction.  seen is the record of the setHandControls calls
\* at that moment.
FrameValues(self, deltaTime, center, handDistance, seen) ==
  [ran |-> TRUE,
   controls |-> self.handControls,
   before |-> self.particles,
   lastDelivered |-> seen.last,
   unread |-> seen.unread,
   deltaTime |-> deltaTime,
   since |-> self.lastTime,
   center |-> center,
   handDistance |-> handDistance,
   effectiveRadius |-> NeedleSphereRadius(self.params, handDistance),
   jitter |-> << >>,
   toSurface |-> IF self.params.behavior = "needleSphere"
                   THEN [k \in 1..Len(self.particles) |->
                           ToSurface(self.particles[k], center)]
                 ELSE << >>]

FrameOf(self, now, seen) ==
  FrameValues(self, (now - self.lastTime) * (Unit \div Kilo),
              NeedleSphereCenter(self.handControls),
              NeedleSphereHandDistance(self.handControls), seen)

\* What an update of instance self reads, with the draws of Math.random()
\* it makes: the responsive behaviour alone draws.
Drawn(self, now, seen, jitter) ==
  IF self.params.behavior = "responsive"
    THEN [FrameOf(self, now, seen) EXCEPT !.jitter = jitter]
  ELSE FrameOf(self, now, seen)

NoFrame ==
  [ran |-> FALSE, controls |-> << >>, before |-> << >>,
   lastDelivered |-> << >>, unread |-> 0, deltaTime |-> 0, since |-> 0,
   center |-> Zero3,
   handDistance |-> 0, effectiveRadius |-> 0, jitter |-> << >>,
   toSurface |-> << >>]

\* The record of the setHandControls calls of an instance: the argument of
\* the last call, and how many calls no update has read yet (0, 1, or 2 for
\* two and more).
NoneDelivered == [last |-> << >>, unread |-> 0]

Deliver(seen, handControls) ==
  [last |-> handControls, unread |-> Min(seen.unread + 1, 2)]

\* The component before its effect runs, or a page without it.  missing
\* holds the numbers of the instances whose canvas id resolves to no
\* element of the page.
NoComponent ==
  [mounted |-> FALSE, initialized |-> FALSE, cleanup |-> FALSE,
   pc |-> "idle", liquidSimRef |-> FALSE, mediaPipeRef |-> FALSE,
   resizeListener |-> FALSE, missing |-> {}]

\* The fields of a MediaPipeHandler after its constructor; a field that
\* holds an object or null is TRUE when it holds the object.  stream is
\* TRUE while the tracks of the camera stream run, capturing while the
\* camera delivers frames, inFlight while Hands works on a frame sent to it
\* (hands.send) whose results it has not delivered yet.
NewHandler ==
  [hands |-> FALSE, camera |-> FALSE, capturing |-> FALSE,
   videoElement |-> FALSE, stream |-> FALSE, interval |-> FALSE,
   callback |-> FALSE, lastFrameTime |-> 0, isProcessing |-> FALSE,
   inFlight |-> FALSE, throwing |-> FALSE]

\* The particles take the seeds in turn.
Draws == [k \in 1..Count |-> Seeds[(k % Len(Seeds)) + 1]]

\* One instance on a page of its own, constructed with one of the
\* configurations.
InitWith(configs) ==
  /\ \E params \in configs :
       sys = [s \in {1} |-> NewSystem(params, Draws, 0)]
  /\ pending = {}
  /\ nextRaf = 1
  /\ clock = 0
  /\ ticks = 0
  /\ frame = [s \in {1} |-> NoFrame]
  /\ delivered = [s \in {1} |-> NoneDelivered]
  /\ component = NoComponent
  /\ mediaPipe = NewHandler
  /\ log = << >>


\* instance.setHandControls(c)
SetHandControls(s) ==
  \E c \in Snapshots :
    /\ sys' = [sys EXCEPT ![s] = setHandControls(sys[s], c)]
    /\ delivered' = [delivered EXCEPT ![s] = Deliver(delivered[s], c)]
    /\ UNCHANGED << pending, nextRaf, clock, ticks, frame, page >>

\* instance.startAnimation(): animate runs at once and requests a frame.
StartAnimation(s) ==
  /\ ticks < MaxTicks
  /\ \E jitter \in JitterChoices(sys) :
       /\ sys' = [sys EXCEPT ![s] = animate(sys[s], clock, jitter, nextRaf)]
       /\ frame' = [frame EXCEPT ![s] =
                      Drawn(sys[s], clock, delivered[s], jitter)]
  /\ delivered' = [delivered EXCEPT ![s].unread = 0]
  /\ pending' = pending \cup {[id |-> nextRaf, sys |-> s]}
  /\ nextRaf' = nextRaf + 1
  /\ ticks' = ticks + 1
  /\ UNCHANGED << clock, page >>

\* The registered callback the browser runs first: the one registered first.
FirstCallback(cbs) == CHOOSE cb \in cbs : \A o \in cbs : cb.id <= o.id

\* One registered callback runs: animate of its instance, which requests
\* the next frame.  st holds sys, pending, nextRaf, frame and delivered.
RunCallback(st, cb, now, jitter) ==
  [sys |-> [st.sys EXCEPT ![cb.sys] = callback(@, now, jitter, st.nextRaf)],
   pending |-> st.pending \cup {[id |-> st.nextRaf, sys |-> cb.sys]},
   nextRaf |-> st.nextRaf + 1,
   frame |-> [st.frame EXCEPT ![cb.sys] =
                Drawn(st.sys[cb.sys], now, st.delivered[cb.sys], jitter)],
   delivered |-> [st.delivered EXCEPT ![cb.sys].unread = 0]]

\* The browser runs the callbacks registered for a display frame, in the
\* order of their registration; those they register wait for the next one.
RECURSIVE RunCallbacks(_, _, _, _)
RunCallbacks(st, cbs, now, jitter) ==
  IF cbs = {} THEN st
  ELSE RunCallbacks(RunCallback(st, FirstCallback(cbs), now, jitter),
                    cbs \ {FirstCallback(cbs)}, now, jitter)

FrameDone(st, now) ==
  /\ sys' = st.sys
  /\ pending' = st.pending
  /\ nextRaf' = st.nextRaf
  /\ frame' = st.frame
  /\ delivered' = st.delivered
  /\ clock' = now
  /\ ticks' = ticks + 1
  /\ UNCHANGED page

\* A display frame, d ms after the last one.
Frame ==
  /\ ticks < MaxTicks
  /\ pending # {}
  /\ \E d \in DeltaMs : \E jitter \in JitterChoices(sys) :
       FrameDone(RunCallbacks([sys |-> sys, pending |-> {},
                               nextRaf |-> nextRaf, frame |-> frame,
                               delivered |-> delivered],
                              pending, clock + d, jitter),
                 clock + d)

\* instance.stopAnimation()
StopAnimation(s) ==
  /\ sys' = [sys EXCEPT ![s] = stopAnimation(sys[s])]
  /\ pending' = Cancelled(pending, s, sys[s])
  /\ UNCHANGED << nextRaf, clock, ticks, frame, delivered, page >>

\* instance.dispose()
Dispose(s) ==
  /\ sys' = [sys EXCEPT ![s] = dispose(sys[s])]
  /\ pending' = Cancelled(pending, s, sys[s])
  /\ UNCHANGED << nextRaf, clock, ticks, frame, delivered, page >>

\* The calls on an instance and the display frames.
InstanceNext ==
  \/ \E s \in DOMAIN sys : SetHandControls(s)
  \/ \E s \in DOMAIN sys : StartAnimation(s)
  \/ Frame
  \/ \E s \in DOMAIN sys : StopAnimation(s)
  \/ \E s \in DOMAIN sys : Dispose(s)

\* One instance driven through its methods, constructed in one behaviour.
SpecSphere ==
  /\ InitWith({NeedleSphereConfig, NeedleSphereDefaults})
  /\ [][InstanceNext]_vars
SpecSwarm == InitWith({NeedleSwarmConfig}) /\ [][InstanceNext]_vars
SpecFluid ==
  InitWith({ResponsiveConfig, CohesiveConfig}) /\ [][InstanceNext]_vars

\* A responsive instance with boundary 10, interactionRadius 5 and
\* attractionStrength 2, and one that leaves interactionRadius unset.
AttractConfig ==
  [behavior |-> "responsive", count |-> Count, size |-> Dec(0, 40),
   boundary |-> 10 * Unit, viscosity |-> Dec(0, 85),
   attractionStrength |-> 2 * Unit, interactionRadius |-> 5 * Unit]
NoRadiusConfig ==
  [behavior |-> "responsive", count |-> Count, size |-> Dec(0, 40),
   boundary |-> 10 * Unit, viscosity |-> Dec(0, 85),
   attractionStrength |-> 2 * Unit]

\* The snapshots delivered to these instances: no hand, a palm at the
\* origin, and a second palm at (2,0,2).
AttractSnapshots ==
  { << >>,
    << Hand(0, 0, 0, 0) >>,
    << Hand(0, 0, 0, 0), Hand(2, 0, 2, 1) >> }

\* Draws of Math.random() that put a particle, with boundary 10, at
\* (0.2,0,2) moving outward, at (3,3.8,0) moving outward fast, at (3,4,0)
\* at rest (distance 5 of the origin), and at (-10,9.8,-1).
AttractSeeds ==
  << << Dec(0, 51), Dec(0, 50), Dec(0, 60),
        Dec(0, 50), Dec(0, 50), Dec(0, 99),
        Dec(0, 80), Dec(0, 90), Dec(0, 50) >>,
     << Dec(0, 65), Dec(0, 69), Dec(0, 50),
        Dec(0, 99), Dec(0, 99), Dec(0, 50),
        Dec(0, 50), Dec(0, 99), Dec(0, 50) >>,
     << Dec(0, 65), Dec(0, 70), Dec(0, 50),
        Dec(0, 50), Dec(0, 50), Dec(0, 50),
        Dec(0, 10), Dec(0, 50), Dec(0, 20) >>,
     << Dec(0, 0), Dec(0, 99), Dec(0, 45),
        Dec(0, 0), Dec(0, 10), Dec(0, 60),
        Dec(0, 10), Dec(0, 50), Dec(0, 20) >> >>

\* The particles take these seeds in turn, from seed number o + 1 on.
AttractDraws(o) ==
  [k \in 1..Count |-> AttractSeeds[((k + o - 1) % Len(AttractSeeds)) + 1]]

\* One instance on a page of its own, constructed with a configuration and
\* the draws of Math.random() of an input.
InitFrom(inputs) ==
  /\ \E i \in inputs : sys = [s \in {1} |-> NewSystem(i.params, i.rnd, 0)]
  /\ pending = {}
  /\ nextRaf = 1
  /\ clock = 0
  /\ ticks = 0
  /\ frame = [s \in {1} |-> NoFrame]
  /\ delivered = [s \in {1} |-> NoneDelivered]
  /\ component = NoComponent
  /\ mediaPipe = NewHandler
  /\ log = << >>

\* instance.setHandControls(c), for the snapshots of a set
SetHandControlsFrom(s, snapshots) ==
  \E c \in snapshots :
    /\ sys' = [sys EXCEPT ![s] = setHandControls(sys[s], c)]
    /\ delivered' = [delivered EXCEPT ![s] = Deliver(delivered[s], c)]
    /\ UNCHANGED << pending, nextRaf, clock, ticks, frame, page >>

\* A responsive instance under snapshots and ticks.
AttractInputs ==
  { [params |-> AttractConfig, rnd |-> AttractDraws(0)],
    [params |-> AttractConfig, rnd |-> AttractDraws(2)],
    [params |-> NoRadiusConfig, rnd |-> AttractDraws(0)] }

AttractNext ==
  \/ \E s \in DOMAIN sys : SetHandControlsFrom(s, AttractSnapshots)
  \/ \E s \in DOMAIN sys : StartAnimation(s)
  \/ Frame

SpecAttract == InitFrom(AttractInputs) /\ [][AttractNext]_vars

-----------------------------------------------------------------------------
(* applyBoundaries on its own                                              *)

\* The boundaries of the instances that call applyBoundaries (25 and 20),
\* and coordinates around them: within both, on one, one unit in the last
\* place beyond one, and beyond both, on either side.
BoundaryChoices == { ResponsiveConfig.boundary, CohesiveConfig.boundary }
BoundaryCoordinates ==
  { 0 - 30 * Unit, 0 - ResponsiveConfig.boundary, 0,
    CohesiveConfig.boundary, CohesiveConfig.boundary + 1,
    ResponsiveConfig.boundary + 1 }
BoundaryVelocities ==
  { Vec(Dec(0, 30), 0 - Dec(0, 30), Dec(0, 1)),
    Vec(0 - Dec(0, 40), 0, Dec(0, 40)) }

\* A particle (position and velocity) after `position += velocity`, and the
\* boundary of its instance.
InitBoundary ==
  /\ \E b \in BoundaryChoices, v \in BoundaryVelocities :
     \E px \in BoundaryCoordinates, py \in BoundaryCoordinates,
        pz \in BoundaryCoordinates :
       sys = [s \in {1} |->
                [params |-> [boundary |-> b],
                 particles |-> << [position |-> Vec(px, py, pz),
                                   velocity |-> v] >>]]
  /\ pending = {}
  /\ nextRaf = 1
  /\ clock = 0
  /\ ticks = 0
  /\ frame = [s \in {1} |-> [ran |-> FALSE, before |-> << >>]]
  /\ delivered = << >>
  /\ component = NoComponent
  /\ mediaPipe = NewHandler
  /\ log = << >>

\* this.applyBoundaries(particle), for every particle of instance s
ApplyBoundaries(s) ==
  /\ sys' = [sys EXCEPT ![s].particles =
               [k \in 1..Len(@) |->
                  applyBoundaries(@[k], sys[s].params.boundary)]]
  /\ frame' = [frame EXCEPT ![s] =
                 [ran |-> TRUE, before |-> sys[s].particles]]
  /\ UNCHANGED << pending, nextRaf, clock, ticks, delivered, page >>

BoundaryNext == \E s \in DOMAIN sys : ApplyBoundaries(s)

SpecBoundary == InitBoundary /\ [][BoundaryNext]_vars

-----------------------------------------------------------------------------
(* A cohesive instance with more particles than one sampling step          *)

\* The cohesive configuration with checkStep particles more, so that the
\* particles 0 and 10 are sampled.
SampledConfig == [CohesiveConfig EXCEPT !.count = checkStep + Count]

\* Draws of Math.random() that put particle i at x = 0.4 * w * i, with
\* y in {0, 0.4, 0.8} and a small velocity.
LineDraws(w) ==
  [k \in 1..(checkStep + Count) |->
     << Dec(0, 50 + w * (k - 1)), Dec(0, 50 + ((k - 1) % 3)), Dec(0, 50),
        Dec(0, 50 + (k % 2)), Dec(0, 50 - (k % 3)), Dec(0, 50),
        Dec(0, 10), Dec(0, 50), Dec(0, 20) >>]

\* The particles 0.8 apart (particle 10 at x = 8) and 1.6 apart (particle
\* 10 at x = 16).
SampledInputs ==
  { [params |-> SampledConfig, rnd |-> LineDraws(2)],
    [params |-> SampledConfig, rnd |-> LineDraws(4)] }

CohesiveNext ==
  \/ \E s \in DOMAIN sys : SetHandControlsFrom(s, Snapshots)
  \/ \E s \in DOMAIN sys : StartAnimation(s)
  \/ Frame

SpecCohesive == InitFrom(SampledInputs) /\ [][CohesiveNext]_vars

-----------------------------------------------------------------------------
(* Needle instances with particles at their center                         *)

\* Draws of Math.random() that put, with boundary 60, a particle at the
\* origin, one at (3, 3.9996, 0) with the stored direction (0, 1, 0), and
\* one at (12, -12, 6); and with boundary 30, at the origin, at
\* (3, 4.0002, 0) and at (6, -6, 3).
SphereCenterSeeds ==
  << << Dec(0, 50), Dec(0, 50), Dec(0, 50),
        Dec(0, 75), Dec(0, 60), Dec(0, 25),
        Dec(0, 80), Dec(0, 90), Dec(0, 50) >>,
     << Dec(0, 52) + 500, Dec(0, 53) + 333, Dec(0, 50),
        Dec(0, 20), Dec(0, 90), Dec(0, 60),
        Dec(0, 50), Dec(0, 90), Dec(0, 50) >>,
     << Dec(0, 60), Dec(0, 40), Dec(0, 55),
        Dec(0, 0), Dec(0, 10), Dec(0, 60),
        Dec(0, 10), Dec(0, 50), Dec(0, 20) >> >>
SwarmCenterSeeds ==
  << SphereCenterSeeds[1],
     << Dec(0, 55), Dec(0, 56) + 667, Dec(0, 50),
        Dec(0, 20), Dec(0, 90), Dec(0, 60),
        Dec(0, 50), Dec(0, 90), Dec(0, 50) >>,
     SphereCenterSeeds[3] >>

\* The particles take the seeds in turn.
CenterDraws(seeds) ==
  [k \in 1..Count |-> seeds[((k - 1) % Len(seeds)) + 1]]

CenterInputs ==
  { [params |-> NeedleSphereConfig, rnd |-> CenterDraws(SphereCenterSeeds)],
    [params |-> NeedleSwarmConfig, rnd |-> CenterDraws(SwarmCenterSeeds)] }

\* No hand (the center is the origin), and one hand with its palm at
\* (3, 4, 0).
CenterSnapshots == { << >>, << Hand(3, 4, 0, 0) >> }

\* The snapshots with one hand whose palm is on the first particle of the
\* instance, or 0.003 beside it.
PalmOffsets == { Zero3, Vec(0, 300, 0) }
PalmsOnParticles(self) ==
  { << [palm |-> VAdd(self.particles[1].position, o), handIndex |-> 0] >> :
      o \in PalmOffsets }

CenterNext ==
  \/ \E s \in DOMAIN sys : SetHandControlsFrom(s, CenterSnapshots)
  \/ \E s \in DOMAIN sys : SetHandControlsFrom(s, PalmsOnParticles(sys[s]))
  \/ \E s \in DOMAIN sys : StartAnimation(s)
  \/ Frame

SpecCenter == InitFrom(CenterInputs) /\ [][CenterNext]_vars

-----------------------------------------------------------------------------
(* A needle-swarm instance over three ticks                                *)

\* The needle-swarm instance with a particle at the origin, which is as far
\* from the palm (-5, 0, 0) as from the palm (5, 0, 0).
AssignInputs ==
  { [params |-> NeedleSwarmConfig, rnd |-> CenterDraws(SwarmCenterSeeds)] }

\* One display frame more than MaxTicks, so that hands can come, go and
\* come back.
LastFrame ==
  /\ ticks = MaxTicks
  /\ pending # {}
  /\ \E d \in DeltaMs : \E jitter \in JitterChoices(sys) :
       FrameDone(RunCallbacks([sys |-> sys, pending |-> {},
                               nextRaf |-> nextRaf, frame |-> frame,
                               delivered |-> delivered],
                              pending, clock + d, jitter),
                 clock + d)

AssignNext ==
  \/ \E s \in DOMAIN sys : SetHandControlsFrom(s, Snapshots)
  \/ \E s \in DOMAIN sys : StartAnimation(s)
  \/ Frame
  \/ LastFrame

SpecAssign == InitFrom(AssignInputs) /\ [][AssignNext]_vars

-----------------------------------------------------------------------------
(* Two instances of one configuration, updated with different deltaTime     *)

\* The deltaTime arguments of the calls of update: 1/60 s and 5 s.
DeltaTimes == { Unit \div 60, 5 * Unit }

\* A responsive and a cohesive configuration with their draws of
\* Math.random().
TwinInputs ==
  { [params |-> AttractConfig, rnd |-> AttractDraws(0)],
    [params |-> CohesiveConfig, rnd |-> Draws] }

\* Two instances constructed with the same configuration and the same
\* draws, on a page of their own.
InitTwins ==
  /\ \E i \in TwinInputs :
       sys = [s \in {1, 2} |-> NewSystem(i.params, i.rnd, 0)]
  /\ pending = {}
  /\ nextRaf = 1
  /\ clock = 0
  /\ ticks = 0
  /\ frame = [s \in {1, 2} |-> NoFrame]
  /\ delivered = [s \in {1, 2} |-> NoneDelivered]
  /\ component = NoComponent
  /\ mediaPipe = NewHandler
  /\ log = << >>

\* instance.update(deltaTime), called by the host itself.
CallUpdate(s) ==
  /\ ticks < MaxTicks
  /\ \E deltaTime \in DeltaTimes : \E jitter \in JitterChoices(sys) :
       /\ sys' = [sys EXCEPT ![s] =
                    update(sys[s], deltaTime, clock * (Unit \div Kilo),
                           jitter)]
       /\ frame' = [frame EXCEPT ![s] =
                      [FrameValues(sys[s], deltaTime,
                                   NeedleSphereCenter(sys[s].handControls),
                                   NeedleSphereHandDistance(
                                     sys[s].handControls),
                                   delivered[s])
                         EXCEPT !.jitter = jitter]]
  /\ ticks' = ticks + 1
  /\ UNCHANGED << pending, nextRaf, clock, delivered, page >>

\* instance.setHandControls(c) with a palm at the origin, alone or with a
\* second one at (2,0,2).
SetTwinControls(s) ==
  \E c \in AttractSnapshots \ { << >> } :
    /\ sys' = [sys EXCEPT ![s] = setHandControls(sys[s], c)]
    /\ UNCHANGED << pending, nextRaf, clock, ticks, frame, delivered, page >>

TwinNext ==
  \/ \E s \in DOMAIN sys : SetTwinControls(s)
  \/ \E s \in DOMAIN sys : CallUpdate(s)

SpecTwins == InitTwins /\ [][TwinNext]_vars

-----------------------------------------------------------------------------
(* The page: OptimizedHandDetection, MediaPipeHandler and the              *)
(* OptimizedLiquidSimulation of four instances                             *)

\* The configurations of the four instances, in their order in `systems`.
SystemConfigs ==
  << ResponsiveConfig, CohesiveConfig, NeedleSphereConfig,
     NeedleSwarmConfig >>

\* new OptimizedLiquidSimulation(): the instances after their constructors.
NewSystems(now) ==
  [s \in 1..Len(SystemConfigs) |-> NewSystem(SystemConfigs[s], Draws, now)]

\* systems.forEach(system => system.startAnimation()): the callbacks the
\* instances register take the ids from firstRaf on.
StartedSystems(systems, now, jitter, firstRaf) ==
  [s \in DOMAIN systems |->
     animate(systems[s], now, jitter, firstRaf + s - 1)]

\* setHandControls of the simulation that reaches its first instance only.
BroadcastFirstOnly(systems, handControls) ==
  [s \in DOMAIN systems |->
     IF s = 1 THEN setHandControls(systems[s], handControls)
     ELSE systems[s]]

\* The pages: one with the four canvases, one without the canvas of the
\* third instance.
MissingCanvases == { {}, {3} }

\* The instances whose constructors return before one throws: the
\* constructor reads clientWidth of the canvas, which throws on null.
Constructed(missing, now) ==
  [s \in {t \in 1..Len(SystemConfigs) : \A m \in missing : t < m} |->
     NewSystem(SystemConfigs[s], Draws, now)]

\* A constructor of the simulation that starts each instance as soon as
\* it is constructed.
SimulationStartsEach(missing, now, jitter, firstRaf) ==
  [systems |-> StartedSystems(Constructed(missing, now), now, jitter,
                              firstRaf),
   started |-> DOMAIN Constructed(missing, now),
   thrown |-> missing # {}]

\* new OptimizedLiquidSimulation(): the instances are constructed one after
\* the other, then started one after the other; a constructor that throws
\* ends it.
Simulation(missing, now, jitter, firstRaf) ==
  IF missing = {}
    THEN [systems |-> StartedSystems(NewSystems(now), now, jitter, firstRaf),
          started |-> 1..Len(SystemConfigs),
          thrown |-> FALSE]
  ELSE [systems |-> Constructed(missing, now),
        started |-> {},
        thrown |-> TRUE]

\* liquidSim.setHandControls(controls)
Broadcast(systems, handControls) ==
  [s \in DOMAIN systems |-> setHandControls(systems[s], handControls)]

\* MediaPipeHandler.cleanup(): the steps it takes, in their order.
cleanupSteps(self) ==
  (IF self.interval THEN << "clearInterval" >> ELSE << >>)
    \o (IF self.camera THEN << "camera.stop" >> ELSE << >>)
    \o (IF self.hands THEN << "hands.close" >> ELSE << >>)
    \o (IF self.videoElement /\ self.stream THEN << "track.stop" >>
        ELSE << >>)
    \o << "handControlsCallback" >>

\* cleanup that leaves the subscriber registered.
cleanupKeepsCallback(self) ==
  [self EXCEPT
     !.interval = FALSE, !.camera = FALSE, !.capturing = FALSE,
     !.hands = FALSE, !.stream = self.stream /\ ~self.videoElement,
     !.videoElement = FALSE]

\* MediaPipeHandler.cleanup(): the handler after it.
cleanup(self) ==
  [self EXCEPT
     !.interval = FALSE, !.camera = FALSE, !.capturing = FALSE,
     !.hands = FALSE, !.stream = self.stream /\ ~self.videoElement,
     !.videoElement = FALSE, !.callback = FALSE]

\* The steps of a call on `on` (0 for the handler, s for instance s), as
\* the cleanup log holds them.
Logged(on, steps) ==
  [k \in 1..Len(steps) |-> [on |-> on, step |-> steps[k]]]

\* OptimizedLiquidSimulation.dispose(): the steps of the instances from s
\* on.
RECURSIVE DisposeSteps(_, _)
DisposeSteps(systems, s) ==
  IF s > Len(systems) THEN << >>
  ELSE Logged(s, dispose(systems[s]).teardown)
         \o DisposeSteps(systems, s + 1)

\* The component is mounted and its effect has run, a second after the
\* navigation: init() waits for the MediaPipe scripts.
Init ==
  /\ sys = << >>
  /\ pending = {}
  /\ nextRaf = 1
  /\ clock = Kilo
  /\ ticks = 0
  /\ frame = << >>
  /\ delivered = << >>
  /\ \E missing \in MissingCanvases :
       component =
         [NoComponent EXCEPT !.mounted = TRUE, !.initialized = TRUE,
                             !.cleanup = TRUE, !.pc = "waitForMediaPipe",
                             !.missing = missing]
  /\ mediaPipe = NewHandler
  /\ log = << >>

\* The page after the constructor of the simulation has returned or
\* thrown: init() catches the error and reports it.
SimulationDone(sim, jitter) ==
  /\ sys' = sim.systems
  /\ frame' = [s \in DOMAIN sim.systems |->
                 IF s \in sim.started
                   THEN Drawn(NewSystem(SystemConfigs[s], Draws, clock),
                              clock, NoneDelivered, jitter)
                 ELSE NoFrame]
  /\ pending' = pending \cup
       {[id |-> nextRaf + s - 1, sys |-> s] : s \in sim.started}
  /\ nextRaf' = nextRaf + Cardinality(sim.started)
  /\ delivered' = [s \in DOMAIN sim.systems |-> NoneDelivered]
  /\ component' = IF sim.thrown THEN [component EXCEPT !.pc = "failed"]
                  ELSE [component EXCEPT !.liquidSimRef = TRUE,
                                         !.resizeListener = TRUE,
                                         !.pc = "importHandler"]

\* init(): the scripts are loaded; the simulation is constructed, which
\* starts the four frame loops and listens to window resizes.
CreateSimulation ==
  /\ component.pc = "waitForMediaPipe"
  /\ ticks < MaxTicks
  /\ ticks' = ticks + 1
  /\ \E jitter \in JitterChoices(NewSystems(clock)) :
       SimulationDone(Simulation(component.missing, clock, jitter, nextRaf),
                      jitter)
  /\ UNCHANGED << clock, mediaPipe, log >>

\* init(): the handler is constructed and subscribed to; start() stores
\* the elements, creates the Hands object, mutes the video and requests
\* the camera stream.
CreateHandler ==
  /\ component.pc = "importHandler"
  /\ mediaPipe' = [NewHandler EXCEPT !.callback = TRUE,
                                     !.videoElement = TRUE, !.hands = TRUE]
  /\ component' = [component EXCEPT !.mediaPipeRef = TRUE,
                                    !.pc = "getUserMedia"]
  /\ UNCHANGED << sys, pending, nextRaf, clock, ticks, frame, delivered,
                  log >>

\* start(): the stream arrives and the video plays it.
StreamReady ==
  /\ component.pc = "getUserMedia"
  /\ mediaPipe' = [mediaPipe EXCEPT !.stream = TRUE]
  /\ component' = [component EXCEPT !.pc =
                     IF mediaPipe.videoElement THEN "play" ELSE "failed"]
  /\ UNCHANGED << sys, pending, nextRaf, clock, ticks, frame, delivered,
                  log >>

\* start(): getUserMedia rejects.
StreamDenied ==
  /\ component.pc = "getUserMedia"
  /\ component' = [component EXCEPT !.pc = "failed"]
  /\ UNCHANGED << sys, pending, nextRaf, clock, ticks, frame, delivered,
                  mediaPipe, log >>

\* start(): the video plays; the camera is created and started.
CameraCreate ==
  /\ component.pc = "play"
  /\ mediaPipe' = IF mediaPipe.videoElement
                    THEN [mediaPipe EXCEPT !.camera = TRUE,
                                           !.capturing = TRUE]
                  ELSE mediaPipe
  /\ component' = [component EXCEPT !.pc =
                     IF mediaPipe.videoElement THEN "cameraStart"
                     ELSE "failed"]
  /\ UNCHANGED << sys, pending, nextRaf, clock, ticks, frame, delivered,
                  log >>

\* start(): the camera has started; the periodic cleanup of duplicate
\* videos is set up.
CameraStarted ==
  /\ component.pc = "cameraStart"
  /\ mediaPipe' = [mediaPipe EXCEPT !.interval = TRUE]
  /\ component' = [component EXCEPT !.pc = "done"]
  /\ UNCHANGED << sys, pending, nextRaf, clock, ticks, frame, delivered,
                  log >>


-----------------------------------------------------------------------------
(* MediaPipeHandler on its own                                             *)

\* The 21 landmarks of a detected hand, in image coordinates, as a
\* sequence: landmark number idx is element idx + 1.
Landmarks(cx, cy, cz) ==
  [i \in 1..21 |-> Vec(cx + (i - 1) * Kilo, cy, cz)]

\* The results Hands delivers: without the landmark list, with no hand,
\* with one hand and with two hands.
Detections ==
  { [image |-> "video"],
    [image |-> "video", multiHandLandmarks |-> << >>],
    [image |-> "video",
     multiHandLandmarks |-> << Landmarks(Dec(0, 30), Dec(0, 60), 0) >>],
    [image |-> "video",
     multiHandLandmarks |-> << Landmarks(Dec(0, 30), Dec(0, 60), 0),
                               Landmarks(Dec(0, 70), Dec(0, 40),
                                         Dec(0, 10)) >>] }

\* The mean of the key points 0, 5, 9, 13 and 17 of a hand.
PalmCenter(h) ==
  Vec(Div(h[1].x + h[6].x + h[10].x + h[14].x + h[18].x, 5 * Unit),
      Div(h[1].y + h[6].y + h[10].y + h[14].y + h[18].y, 5 * Unit),
      Div(h[1].z + h[6].z + h[10].z + h[14].z + h[18].z, 5 * Unit))

\* The palm in simulation coordinates: ((x - 0.5) * 50, (y - 0.5) * 50,
\* z * 50).
ToSimulation(p) ==
  Vec(Mul(p.x - Dec(0, 50), 50 * Unit), Mul(p.y - Dec(0, 50), 50 * Unit),
      Mul(p.z, 50 * Unit))

\* The handControls list processResults builds: one descriptor per hand of
\* results.multiHandLandmarks, none when the list is absent or empty.
HandControlsOf(results) ==
  IF "multiHandLandmarks" \in DOMAIN results
    THEN [j \in 1..Len(results.multiHandLandmarks) |->
            [palm |-> ToSimulation(PalmCenter(results.multiHandLandmarks[j])),
             handIndex |-> j - 1]]
  ELSE << >>

\* Throttled with the interval of 60 admitted frames a second.
ThrottledAtDoubleRate(self, now) == (now - self.lastFrameTime) * 60 < Kilo

\* 1000 / targetFPS > now - lastFrameTime, in ms
Throttled(self, now) == (now - self.lastFrameTime) * 30 < Kilo

\* processResults hands the controls to the subscriber, if there is one,
\* unless it drops the results.
Handed(self, now) == ~Throttled(self, now) /\ self.callback

\* The statement of the try block of processResults that throws, if one
\* does: drawImage on a closed image, when there is a canvas to draw on
\* (the elements are stored and dropped together), or a subscriber that
\* throws.
Thrown(self, results) ==
  IF self.videoElement /\ results.image = "closed" THEN "drawImage"
  ELSE IF self.callback /\ self.throwing THEN "handControlsCallback"
  ELSE "none"

\* processResults whose reset of isProcessing is the last statement of the
\* try block instead of a finally clause.
processResultsNoFinally(self, now, results) ==
  IF Throttled(self, now)
    THEN [handler |-> self, admitted |-> FALSE, calls |-> << >>,
          thrown |-> "none"]
  ELSE [handler |-> [self EXCEPT !.lastFrameTime = now,
                                 !.isProcessing =
                                   Thrown(self, results) # "none"],
        admitted |-> TRUE,
        calls |-> IF self.callback /\ Thrown(self, results) # "drawImage"
                    THEN << HandControlsOf(results) >>
                  ELSE << >>,
        thrown |-> Thrown(self, results)]

\* processResults at time now: the handler after it, whether it admitted
\* the result, the lists it called the subscriber with, and the statement
\* that threw.  isProcessing is set before the try block and reset in its
\* finally clause, so it is reset however the block ends; a throw of
\* drawImage skips the call of the subscriber.
processResults(self, now, results) ==
  IF Throttled(self, now)
    THEN [handler |-> self, admitted |-> FALSE, calls |-> << >>,
          thrown |-> "none"]
  ELSE [handler |-> [self EXCEPT !.lastFrameTime = now,
                                 !.isProcessing = FALSE],
        admitted |-> TRUE,
        calls |-> IF self.callback /\ Thrown(self, results) # "drawImage"
                    THEN << HandControlsOf(results) >>
                  ELSE << >>,
        thrown |-> Thrown(self, results)]

\* The onResults listener: processResults unless one is running.
onResults(self, now, results) ==
  IF self.isProcessing
    THEN [handler |-> self, admitted |-> FALSE, calls |-> << >>,
          thrown |-> "none"]
  ELSE processResults(self, now, results)

\* start(), resolved: the elements are stored, Hands is created, the
\* stream plays, the camera runs and the periodic cleanup is set up.
start(self) ==
  [self EXCEPT !.videoElement = TRUE, !.hands = TRUE, !.stream = TRUE,
               !.camera = TRUE, !.capturing = TRUE, !.interval = TRUE]

\* What the last results did, as observed: whether a subscriber was ever
\* registered, whether cleanup() has run, and for the last results
\* delivered the time, lastFrameTime before them, whether they came after
\* cleanup(), whether they were admitted, the calls of the subscriber, the
\* statement that threw, and whether the results before them made one
\* throw.
NoResults ==
  [ran |-> FALSE, registered |-> FALSE, cleaned |-> FALSE, at |-> 0,
   since |-> 0, late |-> FALSE, subscriber |-> FALSE, admitted |-> FALSE,
   calls |-> << >>, results |-> [image |-> "none"], thrown |-> "none",
   afterThrow |-> FALSE]

Observed(seen, self, now, results, done) ==
  [seen EXCEPT !.ran = TRUE, !.at = now, !.since = self.lastFrameTime,
               !.late = seen.cleaned, !.subscriber = self.callback,
               !.admitted = done.admitted, !.calls = done.calls,
               !.results = results, !.thrown = done.thrown,
               !.afterThrow = seen.thrown # "none"]

\* A handler after its constructor, on a page of its own.
InitCapture ==
  /\ sys = << >>
  /\ pending = {}
  /\ nextRaf = 1
  /\ clock = 0
  /\ ticks = 0
  /\ frame = [s \in {0} |-> NoResults]
  /\ delivered = << >>
  /\ component = NoComponent
  /\ mediaPipe = NewHandler
  /\ log = << >>

\* handler.onHandControls(callback), before cleanup()
Subscribe ==
  /\ ~mediaPipe.callback /\ ~frame[0].cleaned
  /\ mediaPipe' = [mediaPipe EXCEPT !.callback = TRUE]
  /\ frame' = [frame EXCEPT ![0].registered = TRUE]
  /\ UNCHANGED << sys, pending, nextRaf, clock, ticks, delivered, component,
                  log >>

\* handler.start(...), before cleanup()
Start ==
  /\ ~mediaPipe.hands /\ ~frame[0].cleaned
  /\ mediaPipe' = start(mediaPipe)
  /\ UNCHANGED << sys, pending, nextRaf, clock, ticks, frame, delivered,
                  component, log >>

\* Time passes.
Elapse ==
  /\ ticks < MaxTicks
  /\ \E d \in DeltaMs : clock' = clock + d
  /\ ticks' = ticks + 1
  /\ UNCHANGED << sys, pending, nextRaf, frame, delivered, component,
                  mediaPipe, log >>

\* The camera's onFrame: the video frame is sent to Hands.
OnFrame ==
  /\ mediaPipe.capturing /\ mediaPipe.hands /\ ~mediaPipe.isProcessing
  /\ mediaPipe.videoElement /\ ~mediaPipe.inFlight
  /\ mediaPipe' = [mediaPipe EXCEPT !.inFlight = TRUE]
  /\ UNCHANGED << sys, pending, nextRaf, clock, ticks, frame, delivered,
                  component, log >>

ResultsDone(done, results) ==
  /\ mediaPipe' = [done.handler EXCEPT !.inFlight = FALSE]
  /\ frame' = [frame EXCEPT ![0] =
                 Observed(frame[0], mediaPipe, clock, results, done)]
  /\ UNCHANGED << sys, pending, nextRaf, clock, ticks, delivered, component,
                  log >>

\* Hands delivers the results of the frame sent to it, whether or not
\* cleanup() has closed it since.
OnResults ==
  /\ mediaPipe.inFlight
  /\ \E results \in Detections :
       ResultsDone(onResults(mediaPipe, clock, results), results)

\* handler.cleanup()
Cleanup ==
  /\ ~frame[0].cleaned
  /\ mediaPipe' = cleanup(mediaPipe)
  /\ frame' = [frame EXCEPT ![0].cleaned = TRUE]
  /\ UNCHANGED << sys, pending, nextRaf, clock, ticks, delivered, component,
                  log >>

CaptureNext ==
  \/ Subscribe
  \/ Start
  \/ Elapse
  \/ OnFrame
  \/ OnResults
  \/ Cleanup

SpecCapture == InitCapture /\ [][CaptureNext]_vars

\* The results of Detections with an image that is closed when it is drawn.
ClosedDetections == { [r EXCEPT !.image = "closed"] : r \in Detections }

\* handler.onHandControls(callback) with a callback that throws, before
\* cleanup()
SubscribeThrowing ==
  /\ ~mediaPipe.callback /\ ~frame[0].cleaned
  /\ mediaPipe' = [mediaPipe EXCEPT !.callback = TRUE, !.throwing = TRUE]
  /\ frame' = [frame EXCEPT ![0].registered = TRUE]
  /\ UNCHANGED << sys, pending, nextRaf, clock, ticks, delivered, component,
                  log >>

\* Hands delivers results whose image drawImage rejects.
OnClosedResults ==
  /\ mediaPipe.inFlight
  /\ \E results \in ClosedDetections :
       ResultsDone(onResults(mediaPipe, clock, results), results)

\* A handler on a page of its own whose drawing or subscriber may throw.
ThrowNext ==
  \/ CaptureNext
  \/ SubscribeThrowing
  \/ OnClosedResults

SpecThrow == InitCapture /\ [][ThrowNext]_vars

\* The camera delivers a frame and Hands its results: processResults,
\* which drops the results within the throttle interval and else hands the
\* controls to the subscriber, which broadcasts them.
Results ==
  \E c \in Snapshots :
    /\ mediaPipe.capturing /\ mediaPipe.hands /\ ~mediaPipe.isProcessing
    /\ mediaPipe' = IF Throttled(mediaPipe, clock) THEN mediaPipe
                    ELSE [mediaPipe EXCEPT !.lastFrameTime = clock]
    /\ sys' = IF Handed(mediaPipe, clock) /\ component.liquidSimRef
                THEN Broadcast(sys, c) ELSE sys
    /\ delivered' = IF Handed(mediaPipe, clock) /\ component.liquidSimRef
                      THEN [s \in DOMAIN delivered |->
                              Deliver(delivered[s], c)]
                    ELSE delivered
    /\ UNCHANGED << pending, nextRaf, clock, ticks, frame, component, log >>

\* The window is resized: the listener of the simulation resizes every
\* instance.
WindowResize ==
  \E canvasSize \in CanvasSizes :
    /\ component.resizeListener
    /\ sys' = [s \in DOMAIN sys |-> handleResize(sys[s], canvasSize)]
    /\ UNCHANGED << pending, nextRaf, clock, ticks, frame, delivered,
                    page >>

\* The component unmounts and the cleanup of its effect runs: the handler
\* is cleaned up if there is one, then the simulation disposed of if there
\* is one.
Unmount ==
  /\ component.mounted /\ component.cleanup
  /\ log' = log
       \o (IF component.mediaPipeRef
             THEN Logged(0, cleanupSteps(mediaPipe)) ELSE << >>)
       \o (IF component.liquidSimRef THEN DisposeSteps(sys, 1) ELSE << >>)
  /\ mediaPipe' = IF component.mediaPipeRef THEN cleanup(mediaPipe)
                  ELSE mediaPipe
  /\ sys' = IF component.liquidSimRef
              THEN [s \in DOMAIN sys |-> dispose(sys[s])] ELSE sys
  /\ pending' = IF component.liquidSimRef
                  THEN {cb \in pending :
                          cb.id # sys[cb.sys].animationId}
                ELSE pending
  /\ component' = [component EXCEPT !.mounted = FALSE, !.cleanup = FALSE]
  /\ UNCHANGED << nextRaf, clock, ticks, frame, delivered >>

\* The component mounts again with its refs kept (reactStrictMode): the
\* effect returns at once, `initialized` being set, and registers no
\* cleanup.
Remount ==
  /\ ~component.mounted
  /\ component' = [component EXCEPT !.mounted = TRUE]
  /\ UNCHANGED << sys, pending, nextRaf, clock, ticks, frame, delivered,
                  mediaPipe, log >>

Next ==
  \/ CreateSimulation
  \/ CreateHandler
  \/ StreamReady
  \/ StreamDenied
  \/ CameraCreate
  \/ CameraStarted
  \/ Results
  \/ WindowResize
  \/ Frame
  \/ Unmount
  \/ Remount

Spec == Init /\ [][Next]_vars

\* The page with its scheduling: once the scripts are there, a promise
\* that init() awaits settles (a module is imported, getUserMedia answers,
\* the video plays, the camera starts).  Whether the scripts ever load
\* (waitForMediaPipe polls for them without a limit), whether the browser
\* runs display frames (it runs none for a hidden page), unmounting,
\* mounting again, camera results and window resizes are up to the network
\* and the user.
InitStep ==
  \/ CreateHandler
  \/ StreamReady
  \/ StreamDenied
  \/ CameraCreate
  \/ CameraStarted

FairSpec == Spec /\ WF_vars(InitStep)

-----------------------------------------------------------------------------
(* Properties                                                              *)

\* The tolerance of the geometric properties, 1e-3.
Epsilon == Unit \div Kilo

\* The instances of a behaviour whose update has run.
Ticked(behavior) ==
  {s \in DOMAIN sys : sys[s].params.behavior = behavior /\ frame[s].ran}

\* How far a position is off the shell of a radius about a center.
OffShell(position, center, radius) ==
  Abs(DistanceTo(position, center) - radius)

\* targetRadiusForParticle of particle k of a needle-sphere instance in
\* its last update.
TargetRadius(s, k) ==
  ShellRadius(frame[s].effectiveRadius, sys[s].particles[k].groupIndex,
              OrDefault(sys[s].params, "outerRadiusMultiplier", Dec(1, 80)))

\* C1: in needle-sphere mode, after every update, each particle is within
\* 1e-3 of its shell: its distance to the center of that update is the
\* effective radius for group 0 and the effective radius times
\* outerRadiusMultiplier for group 1.
ShellInvariant ==
  \A s \in Ticked("needleSphere") :
    \A k \in 1..Len(sys[s].particles) :
      OffShell(sys[s].particles[k].position, frame[s].center,
               TargetRadius(s, k)) < Epsilon

\* An update with hands at a positive deltaTime has brought a particle
\* onto its shell that started the tick more than 1 off it.
ShellReached ==
  \E s \in Ticked("needleSphere") :
    /\ Len(frame[s].controls) > 0
    /\ frame[s].deltaTime > 0
    /\ \E k \in 1..Len(sys[s].particles) :
         OffShell(frame[s].before[k].position, frame[s].center,
                  TargetRadius(s, k)) > Unit

\* C2, as stated: in needle-sphere mode, after each tick, the component of
\* every particle's velocity along the unit radial direction from the
\* tick's center to the particle's position at the end of the tick is
\* below 1e-3 in magnitude.
RadialVelocityAtEnd ==
  \A s \in Ticked("needleSphere") :
    \A k \in 1..Len(sys[s].particles) :
      Abs(VDot(sys[s].particles[k].velocity,
               Normalize(VSub(sys[s].particles[k].position,
                              frame[s].center)))) < Epsilon

\* C2, amended: in needle-sphere mode, after each tick, the component of
\* every particle's velocity along the unit direction the tick projected
\* the particle along (from the tick's center to the particle's position
\* at the start of the tick) is below 1e-3 in magnitude.
RadialVelocityAtProjection ==
  \A s \in Ticked("needleSphere") :
    \A k \in 1..Len(sys[s].particles) :
      Abs(VDot(sys[s].particles[k].velocity, frame[s].toSurface[k]))
        < Epsilon

\* A tick at a positive deltaTime has taken a radial component above 1e-3
\* out of a particle's velocity.
RadialComponentRemoved ==
  \E s \in Ticked("needleSphere") :
    /\ frame[s].deltaTime > 0
    /\ \E k \in 1..Len(sys[s].particles) :
         Abs(VDot(frame[s].before[k].velocity, frame[s].toSurface[k]))
           > Epsilon

\* The instances of the responsive and cohesive behaviours.
Fluid ==
  {s \in DOMAIN sys : sys[s].params.behavior \in {"responsive", "cohesive"}}

\* C3: in responsive and cohesive modes, initially and after every update,
\* every particle has |x|, |y| and |z| at most the boundary.
BoundaryInvariant ==
  \A s \in Fluid :
    \A k \in 1..Len(sys[s].particles) :
      /\ Abs(sys[s].particles[k].position.x) <= sys[s].params.boundary
      /\ Abs(sys[s].particles[k].position.y) <= sys[s].params.boundary
      /\ Abs(sys[s].particles[k].position.z) <= sys[s].params.boundary

\* An update has met a particle that moved out through the lower x face:
\* it is on the face and its x velocity is reversed.
BoundaryBounce ==
  \E s \in Fluid :
    /\ frame[s].ran
    /\ \E k \in 1..Len(sys[s].particles) :
         /\ sys[s].particles[k].position.x = 0 - sys[s].params.boundary
         /\ frame[s].before[k].velocity.x < 0
         /\ sys[s].particles[k].velocity.x > 0

\* The needle-swarm instances whose last update ran with two hands.
TickedWithTwoHands ==
  {s \in Ticked("needleSwarm") : Len(frame[s].controls) = 2}

\* The particles of instance s that started its last update with a valid
\* assignedCenterIndex.
AssignedAtStart(s) ==
  {k \in 1..Len(sys[s].particles) :
     /\ frame[s].before[k].assignedCenterIndex # Undefined
     /\ frame[s].before[k].assignedCenterIndex < Len(frame[s].controls)}

\* The distance of particle k of instance s, at the start of the last
\* update, to center j (0-based) of that update.
StartDistance(s, k, j) ==
  DistanceTo(frame[s].before[k].position,
             SwarmCenters(frame[s].controls)[j + 1])

\* C4: in needle-swarm mode with two hands, a tick changes the valid
\* assignment k of a particle to another center j only if, at the start of
\* the tick, dist(position, center_j) < 0.8 * dist(position, center_k);
\* otherwise the assignment stays k.
AssignmentHysteresis ==
  \A s \in TickedWithTwoHands :
    \A k \in AssignedAtStart(s) :
      \/ sys[s].particles[k].assignedCenterIndex
           = frame[s].before[k].assignedCenterIndex
      \/ StartDistance(s, k, sys[s].particles[k].assignedCenterIndex)
           < Mul(StartDistance(s, k,
                               frame[s].before[k].assignedCenterIndex),
                 Dec(0, 80))

\* A tick with two hands has kept the assignment of a particle to which
\* the other center was closer, but not 20% closer.
MarginalCenterKept ==
  \E s \in TickedWithTwoHands :
    \E k \in AssignedAtStart(s) :
      /\ sys[s].particles[k].assignedCenterIndex
           = frame[s].before[k].assignedCenterIndex
      /\ StartDistance(s, k, 1 - frame[s].before[k].assignedCenterIndex)
           < StartDistance(s, k, frame[s].before[k].assignedCenterIndex)

\* C5: on one instance, under any sequence of startAnimation,
\* stopAnimation, dispose and display frames, dispose cancels the pending
\* frame callback before it releases anything, and no frame callback of the
\* instance runs update or render once dispose has returned.
DisposeStopsTicks ==
  \A s \in DOMAIN sys :
    /\ ~sys[s].usedAfterRelease
    /\ \A k \in 2..Len(sys[s].teardown) :
         sys[s].teardown[k] # "cancelAnimationFrame"

\* The positions in the cleanup log of the steps of one kind.
Unregistered ==
  {i \in 1..Len(log) : log[i].step = "cancelAnimationFrame"}
CaptureStopped ==
  {i \in 1..Len(log) : log[i].step \in {"camera.stop", "track.stop"}}
BuffersReleased ==
  {i \in 1..Len(log) :
     log[i].step \in {"skeletons", "geometry", "material",
                      "skeletonMaterial", "mesh"}}
RendererReleased == {i \in 1..Len(log) : log[i].step = "renderer"}

\* C6, as stated: on teardown of the component the frame callbacks of the
\* instances are unregistered, then the capture is stopped, then the
\* buffers and meshes are released, then the renderer (of the same
\* instance) is released.
TeardownOrder ==
  /\ \A i \in Unregistered : \A j \in CaptureStopped : i < j
  /\ \A j \in CaptureStopped : \A r \in BuffersReleased : j < r
  /\ \A r \in BuffersReleased : \A q \in RendererReleased :
       log[r].on = log[q].on => r < q

\* C6, amended: on teardown of the component the capture is stopped first;
\* then, instance after instance, the frame callback of the instance is
\* unregistered, then its skeleton meshes, geometry, materials and mesh
\* are released, then its renderer is released.
TeardownOrderPerInstance ==
  /\ \A j \in CaptureStopped : \A i \in Unregistered : j < i
  /\ \A i \in 1..Len(log) : \A j \in 1..Len(log) :
       i < j => log[i].on <= log[j].on
  /\ \A i \in Unregistered : \A r \in BuffersReleased :
       log[i].on = log[r].on => i < r
  /\ \A r \in BuffersReleased : \A q \in RendererReleased :
       log[r].on = log[q].on => r < q

\* The cleanup has stopped a running camera and torn down the four
\* instances, each with a frame callback pending.
TornDown ==
  /\ \E j \in CaptureStopped : log[j].step = "camera.stop"
  /\ Cardinality(Unregistered) = Len(SystemConfigs)
  /\ Cardinality(RendererReleased) = Len(SystemConfigs)

\* C8: the groupIndex of every particle of every instance is its index in
\* the store modulo 2, whatever updates, setHandControls, handleResize and
\* dispose calls there have been.
GroupIndexFixed ==
  \A s \in DOMAIN sys :
    /\ Len(sys[s].particles) = sys[s].params.count
    /\ \A k \in 1..Len(sys[s].particles) :
         sys[s].particles[k].groupIndex = (k - 1) % 2

\* The four instances have been updated with hands, resized and disposed
\* of.
GroupIndexKept ==
  /\ DOMAIN sys = 1..Len(SystemConfigs)
  /\ \A s \in DOMAIN sys :
       /\ frame[s].ran
       /\ Len(frame[s].controls) > 0
       /\ frame[s].deltaTime > 0
       /\ sys[s].size = << 640, 480 >>
       /\ sys[s].teardown # << >>

\* C7: every update uses exactly the hand list of the most recent
\* setHandControls call before it (the empty list if there was none),
\* whole; a list overwritten before any update ran is read by none.
SnapshotLastWriteWins ==
  \A s \in DOMAIN sys :
    frame[s].ran => frame[s].controls = frame[s].lastDelivered

\* An update has run after two or more setHandControls calls that no
\* update came between, the last of them with a hand.
OverwrittenSnapshotSkipped ==
  \E s \in DOMAIN sys :
    /\ frame[s].ran
    /\ frame[s].unread = 2
    /\ Len(frame[s].lastDelivered) > 0

\* The shell radius of particle k of instance s for a driving distance:
\* baseRadius + distance * radiusHandScale, times outerRadiusMultiplier
\* for group 1.
ShellFor(s, k, distance) ==
  Mul(OrDefault(sys[s].params, "baseRadius", 8 * Unit)
        + Mul(distance, OrDefault(sys[s].params, "radiusHandScale",
                                  Dec(1, 20))),
      IF (k - 1) % 2 = 1
        THEN OrDefault(sys[s].params, "outerRadiusMultiplier", Dec(1, 80))
      ELSE Unit)

\* C9: in needle-sphere mode an update that runs with the empty snapshot
\* uses the center (0,0,0) and the driving distance 10 and leaves the
\* particles on the shells these give, whatever was set before.
EmptySnapshotDefaults ==
  \A s \in Ticked("needleSphere") :
    Len(frame[s].lastDelivered) = 0 =>
      /\ frame[s].center = Zero3
      /\ frame[s].handDistance = 10 * Unit
      /\ \A k \in 1..Len(sys[s].particles) :
           OffShell(sys[s].particles[k].position, Zero3,
                    ShellFor(s, k, 10 * Unit)) < Epsilon

\* An update has run with the empty snapshot, set after an update with the
\* one hand at (3,4,0) had left a particle on its shell about that palm.
EmptyAfterOneHand ==
  \E s \in Ticked("needleSphere") :
    /\ Len(frame[s].lastDelivered) = 0
    /\ frame[s].unread > 0
    /\ \E k \in 1..Len(sys[s].particles) :
         OffShell(frame[s].before[k].position, Vec(3 * Unit, 4 * Unit, 0),
                  ShellFor(s, k, 15 * Unit)) < Epsilon

\* The center and the driving distance the snapshot of the last update of
\* instance s gives.
ExpectedCenter(controls) ==
  IF Len(controls) = 2
    THEN Vec((controls[1].palm.x + controls[2].palm.x) \div 2,
             (controls[1].palm.y + controls[2].palm.y) \div 2,
             (controls[1].palm.z + controls[2].palm.z) \div 2)
  ELSE IF Len(controls) = 1
    THEN Vec(controls[1].palm.x, controls[1].palm.y, controls[1].palm.z)
  ELSE Zero3

\* C10: in needle-sphere mode the center and the shell radius follow from
\* the snapshot of the update alone: two hands give the midpoint of the
\* palms and their distance (palms (-5,0,0) and (5,0,0): center (0,0,0),
\* distance 10), one hand gives its palm and 15; the effective radius is
\* baseRadius + distance * radiusHandScale, times outerRadiusMultiplier
\* for the particles of group 1.
CenterAndRadiusFromSnapshot ==
  \A s \in Ticked("needleSphere") :
    /\ Len(frame[s].controls) = 2 =>
         /\ frame[s].center = ExpectedCenter(frame[s].controls)
         /\ Abs(MulU(frame[s].handDistance, frame[s].handDistance)
                  - LengthSq(VSub(PalmOf(frame[s].controls[1]),
                                  PalmOf(frame[s].controls[2]))))
              < Epsilon
    /\ frame[s].controls = << Hand(0 - 5, 0, 0, 0), Hand(5, 0, 0, 1) >> =>
         frame[s].center = Zero3 /\ frame[s].handDistance = 10 * Unit
    /\ Len(frame[s].controls) = 1 => frame[s].handDistance = 15 * Unit
    /\ Len(frame[s].controls) > 0 =>
         \A k \in 1..Len(sys[s].particles) :
           OffShell(sys[s].particles[k].position,
                    ExpectedCenter(frame[s].controls),
                    ShellFor(s, k, frame[s].handDistance)) < Epsilon

\* An update has run with two hands on particles that an update with one
\* hand had left on the shells about its palm.
TwoHandsAfterOneHand ==
  \E s \in Ticked("needleSphere") :
    /\ Len(frame[s].controls) = 2
    /\ frame[s].deltaTime > 0
    /\ \A k \in 1..Len(sys[s].particles) :
         OffShell(frame[s].before[k].position, Vec(3 * Unit, 4 * Unit, 0),
                  ShellFor(s, k, 15 * Unit)) < Epsilon

-----------------------------------------------------------------------------
(* Attraction toward a palm                                                *)

\* The instances whose last update ran with the one palm at the origin.
TickedAtOrigin ==
  {s \in Ticked("responsive") : frame[s].controls = << Hand(0, 0, 0, 0) >>}

\* The particles of instance s that started its last update within 5 of
\* the origin with a velocity initParticles can draw.
NearOrigin(s) ==
  {k \in 1..Len(sys[s].particles) :
     /\ Length(frame[s].before[k].position) < 5 * Unit
     /\ Abs(frame[s].before[k].velocity.x) <= Dec(0, 40)
     /\ Abs(frame[s].before[k].velocity.y) <= Dec(0, 40)
     /\ Abs(frame[s].before[k].velocity.z) <= Dec(0, 40)}

\* velocity dot (origin - initial position), after the update
TowardOrigin(s, k) ==
  VDot(sys[s].particles[k].velocity,
       VSub(Zero3, frame[s].before[k].position))

\* The jitter of particle k in the last update of instance s.
JitterOf(s, k) ==
  Vec(Centered(frame[s].jitter[k][1], Dec(0, 5)),
      Centered(frame[s].jitter[k][2], Dec(0, 5)),
      Centered(frame[s].jitter[k][3], Dec(0, 5)))

\* The outward part of the initial velocity plus jitter of particle k,
\* times its distance d to the origin, and the attraction 2 * (1 - d / 5)
\* times d.
Outward(s, k) ==
  VDot(VAdd(frame[s].before[k].velocity, JitterOf(s, k)),
       frame[s].before[k].position)
Pull(s, k) ==
  Mul(2 * Unit - Div(2 * Length(frame[s].before[k].position), 5 * Unit),
      Length(frame[s].before[k].position))

\* C11, as stated: with interactionRadius 5, attractionStrength 2 and one
\* palm at the origin, after one update every particle that started within
\* 5 of the origin has velocity dot (origin - initial position) > 0,
\* whatever its initial velocity in [-0.4,0.4]^3 and the jitter.
AttractedTowardOrigin ==
  \A s \in TickedAtOrigin :
    sys[s].params = AttractConfig =>
      \A k \in NearOrigin(s) : TowardOrigin(s, k) > 0

\* C11, amended: it has velocity dot (origin - initial position) > 0 if
\* the outward radial part of its initial velocity plus jitter is below
\* the attraction 2 * (1 - d / 5) at its distance d > 0 by more than 1e-3.
AttractedUnlessOutrun ==
  \A s \in TickedAtOrigin :
    sys[s].params = AttractConfig =>
      \A k \in NearOrigin(s) :
        Outward(s, k) + Mul(Epsilon, Length(frame[s].before[k].position))
            < Pull(s, k)
          => TowardOrigin(s, k) > 0

\* An update has turned toward the origin a particle that started within
\* 5 of it moving outward.
OutwardTurnedInward ==
  \E s \in TickedAtOrigin :
    /\ sys[s].params = AttractConfig
    /\ \E k \in NearOrigin(s) :
         /\ Outward(s, k) > 0
         /\ Outward(s, k) + Mul(Epsilon, Length(frame[s].before[k].position))
              < Pull(s, k)
         /\ TowardOrigin(s, k) > 0

-----------------------------------------------------------------------------
(* Needle swarm shells                                                     *)

\* The center of particle k of a needle-swarm instance in its last update:
\* the origin with no hand, else the palm of the center it is assigned to.
SwarmCenterOf(s, k) ==
  IF Len(frame[s].controls) = 0 THEN Zero3
  ELSE PalmOf(frame[s].controls[
                sys[s].particles[k].assignedCenterIndex + 1])

\* 12 for the particles of group 0, 12 * 1.8 for those of group 1
SwarmTarget(s, k) ==
  IF sys[s].particles[k].groupIndex = 0 THEN 12 * Unit ELSE Dec(21, 60)

\* C12: in needle-swarm mode, with zero, one or two hands, after every
\* tick each particle is within 1e-3 of the distance 12 (group 0) or
\* 12 * 1.8 (group 1) from its center, from the first tick on and in the
\* ticks in which the assignment or the hand count changes.
SwarmShellInvariant ==
  \A s \in Ticked("needleSwarm") :
    \A k \in 1..Len(sys[s].particles) :
      OffShell(sys[s].particles[k].position, SwarmCenterOf(s, k),
               SwarmTarget(s, k)) < Epsilon

\* A tick with hands has assigned a center to a particle that had none and
\* started the tick more than 1 off the shell about that center.
SwarmShellReached ==
  \E s \in Ticked("needleSwarm") :
    /\ Len(frame[s].controls) > 0
    /\ \E k \in 1..Len(sys[s].particles) :
         /\ frame[s].before[k].assignedCenterIndex = Undefined
         /\ OffShell(frame[s].before[k].position, SwarmCenterOf(s, k),
                     SwarmTarget(s, k)) > Unit

-----------------------------------------------------------------------------
(* Broadcast of the snapshots                                              *)

\* C13: when setHandControls(c) of the simulation has returned, the stored
\* snapshot of every instance is c, the last list handed to the
\* simulation, and the instances tick on the same snapshot.
BroadcastReachesAll ==
  \A s \in DOMAIN sys :
    /\ sys[s].handControls = delivered[s].last
    /\ \A t \in DOMAIN sys :
         /\ sys[s].handControls = sys[t].handControls
         /\ frame[s].ran /\ frame[t].ran
              => frame[s].controls = frame[t].controls

\* The four instances hold a snapshot with two hands, which replaced one
\* they have ticked on.
BroadcastReceived ==
  /\ DOMAIN sys = 1..Len(SystemConfigs)
  /\ \A s \in DOMAIN sys :
       /\ Len(sys[s].handControls) = 2
       /\ delivered[s].unread > 0
       /\ frame[s].ran
       /\ Len(frame[s].controls) = 1

-----------------------------------------------------------------------------
(* Instance buffer                                                         *)

\* The positions in the buffer operations of the last update of instance
\* s that write the transform of particle index i, and those that set the
\* dirty flag.
WritesOf(s, i) ==
  {j \in 1..Len(sys[s].bufferOps) :
     sys[s].bufferOps[j] = [op |-> "setMatrixAt", index |-> i]}
Flagged(s) ==
  {j \in 1..Len(sys[s].bufferOps) : sys[s].bufferOps[j].op = "needsUpdate"}

\* C14: in every mode and for every hand count, one update writes exactly
\* one transform for each particle index 0..count-1 and sets the dirty
\* flag of the buffer exactly once, after the last write.
OneWritePerParticle ==
  \A s \in DOMAIN sys :
    frame[s].ran =>
      /\ \A i \in 0..(sys[s].params.count - 1) :
           Cardinality(WritesOf(s, i)) = 1
      /\ Len(sys[s].bufferOps) = sys[s].params.count + 1
      /\ Flagged(s) = {Len(sys[s].bufferOps)}
      /\ \A k \in 1..sys[s].params.count :
           sys[s].instanceMatrix[k] = sys[s].particles[k].position

\* The instances of the four modes have each been updated with no hand,
\* then with two hands.
BufferWritten ==
  /\ DOMAIN sys = 1..Len(SystemConfigs)
  /\ \A s \in DOMAIN sys :
       /\ frame[s].ran
       /\ Len(frame[s].controls) = 2
       /\ sys[s].bufferOps # << >>

-----------------------------------------------------------------------------
(* Construction against a missing canvas                                   *)

\* C15: when a canvas id resolves to no element, the constructor of the
\* simulation throws: the component holds no simulation, the instance of
\* the missing canvas does not exist, and no instance has been started (no
\* frame callback is registered, no update has run).
ConstructionFailsFast ==
  component.missing # {} =>
    /\ ~component.liquidSimRef
    /\ DOMAIN sys \cap component.missing = {}
    /\ pending = {}
    /\ \A s \in DOMAIN sys : ~frame[s].ran /\ sys[s].animationId = 0

\* The constructor of the simulation has thrown at its third instance,
\* after the constructors of the first two had returned.
ConstructionFailed ==
  /\ component.missing = {3}
  /\ component.pc = "failed"
  /\ DOMAIN sys = {1, 2}

-----------------------------------------------------------------------------
(* Admission and delivery of detection results                             *)

\* The handlers on a page of their own to which results have been
\* delivered.
Processed == {h \in DOMAIN frame : h = 0 /\ frame[h].ran}

\* C16: a result is admitted only if at least 1000 / 30 ms have passed
\* since the last admitted one; a result that comes earlier calls no
\* subscriber and leaves lastFrameTime alone; no result is being processed
\* when another one arrives.
ThrottleAdmission ==
  \A h \in Processed :
    /\ frame[h].admitted =>
         /\ (frame[h].at - frame[h].since) * 30 >= Kilo
         /\ mediaPipe.lastFrameTime = frame[h].at
    /\ (frame[h].at - frame[h].since) * 30 < Kilo =>
         /\ ~frame[h].admitted
         /\ frame[h].calls = << >>
         /\ mediaPipe.lastFrameTime = frame[h].since
    /\ ~mediaPipe.isProcessing

\* A result has been dropped that came 16 ms after an admitted one, with
\* a subscriber registered.
ResultThrottled ==
  \E h \in Processed :
    /\ ~frame[h].admitted
    /\ frame[h].since > 0
    /\ frame[h].at - frame[h].since = 16
    /\ mediaPipe.callback

\* The number of hands in the last results.
Detected(h) ==
  IF "multiHandLandmarks" \in DOMAIN frame[h].results
    THEN Len(frame[h].results.multiHandLandmarks)
  ELSE 0

TwoHandsHanded ==
  \E h \in Processed :
    /\ frame[h].admitted
    /\ Len(frame[h].calls) = 1
    /\ Len(frame[h].calls[1]) = 2

-----------------------------------------------------------------------------
(* The boundary step, axis by axis                                         *)

Axes == {"x", "y", "z"}

\* The axes on which particle k of instance s was beyond the boundary
\* before the last boundary step.
Beyond(s, k) ==
  {a \in Axes : Abs(frame[s].before[k].position[a]) > sys[s].params.boundary}

\* C18: applyBoundaries treats each axis on its own: a coordinate beyond
\* the boundary is set to the boundary with its sign and the velocity on
\* that axis is multiplied by -0.8; a coordinate within the boundary and
\* its velocity stay as they are, whatever happens on the other axes.
AxesClampedIndependently ==
  \A s \in DOMAIN sys :
    frame[s].ran =>
      \A k \in 1..Len(sys[s].particles) : \A a \in Axes :
        IF a \in Beyond(s, k)
          THEN /\ sys[s].particles[k].position[a] =
                    Sgn(frame[s].before[k].position[a])
                      * sys[s].params.boundary
               /\ sys[s].particles[k].velocity[a] =
                    Mul(frame[s].before[k].velocity[a], 0 - Dec(0, 80))
        ELSE /\ sys[s].particles[k].position[a] =
                  frame[s].before[k].position[a]
             /\ sys[s].particles[k].velocity[a] =
                  frame[s].before[k].velocity[a]

\* One boundary step has clamped a particle on two axes, beyond the
\* boundary on opposite sides, and left the third axis alone.
TwoAxesClamped ==
  \E s \in DOMAIN sys :
    /\ frame[s].ran
    /\ \E k \in 1..Len(sys[s].particles) :
         /\ Cardinality(Beyond(s, k)) = 2
         /\ \E a \in Beyond(s, k), c \in Beyond(s, k) :
              /\ sys[s].particles[k].position[a] = sys[s].params.boundary
              /\ sys[s].particles[k].position[c] =
                   0 - sys[s].params.boundary
              /\ sys[s].particles[k].velocity[c] # 0

-----------------------------------------------------------------------------
(* The responsive force and the order of the integration                   *)

\* The pull of a palm at offset toPalm and distance dist on a particle of
\* an instance with these parameters: toward the palm, attractionStrength *
\* (1 - dist / interactionRadius) strong, if dist is below the radius.
PullAlong(params, toPalm, dist) ==
  IF "interactionRadius" \in DOMAIN params /\ dist < params.interactionRadius
    THEN MultiplyScalar(
           Normalize(toPalm),
           Mul(params.attractionStrength,
               Unit - Div(dist, params.interactionRadius)))
  ELSE Zero3

\* The pull of hand j of the snapshot the last update of instance s read on
\* particle k, where the particle was before the update.
PalmPull(s, k, j) ==
  PullAlong(sys[s].params,
            VSub(PalmOf(frame[s].controls[j]), frame[s].before[k].position),
            DistanceTo(PalmOf(frame[s].controls[j]),
                       frame[s].before[k].position))

\* The sum of these pulls from hand j on.
RECURSIVE PalmPulls(_, _, _)
PalmPulls(s, k, j) ==
  IF j > Len(frame[s].controls) THEN Zero3
  ELSE VAdd(PalmPull(s, k, j), PalmPulls(s, k, j + 1))

\* (velocity + force) * viscosity, the force being the pulls and the jitter
SteppedVelocity(s, k) ==
  MultiplyScalar(VAdd(frame[s].before[k].velocity,
                      VAdd(PalmPulls(s, k, 1), JitterOf(s, k))),
                 sys[s].params.viscosity)

\* A particle after position += velocity and the boundary step.
SteppedParticle(before, velocity, boundary) ==
  applyBoundaries([position |-> VAdd(before.position, velocity),
                   velocity |-> velocity],
                  boundary)

MovedAs(particle, stepped) ==
  /\ particle.position = stepped.position
  /\ particle.velocity = stepped.velocity

\* C19: a responsive update takes as force on a particle the sum of the
\* pulls of the palms strictly within interactionRadius (none with the
\* radius unset) plus the jitter, and then sets velocity += force,
\* velocity *= viscosity, position += velocity and applies the boundary
\* step, in this order.
ResponsiveForceThenIntegration ==
  \A s \in Ticked("responsive") : \A k \in 1..Len(sys[s].particles) :
    MovedAs(sys[s].particles[k],
            SteppedParticle(frame[s].before[k], SteppedVelocity(s, k),
                            sys[s].params.boundary))

\* An update has run in which both palms of the snapshot pulled a moving
\* particle, in different directions.
TwoPalmsPulled ==
  \E s \in Ticked("responsive") :
    /\ Len(frame[s].controls) = 2
    /\ \E k \in 1..Len(sys[s].particles) :
         /\ PalmPull(s, k, 1) # Zero3
         /\ PalmPull(s, k, 2) # Zero3
         /\ PalmPull(s, k, 1) # PalmPull(s, k, 2)
         /\ frame[s].before[k].velocity # Zero3

\* An update has run with a palm at the interaction radius of a particle
\* or beyond it, which moved by its velocity and jitter alone.
PalmOutOfReach ==
  \E s \in Ticked("responsive") :
    /\ "interactionRadius" \in DOMAIN sys[s].params
    /\ Len(frame[s].controls) = 1
    /\ \E k \in 1..Len(sys[s].particles) :
         /\ DistanceTo(PalmOf(frame[s].controls[1]),
                       frame[s].before[k].position)
              >= sys[s].params.interactionRadius
         /\ PalmPulls(s, k, 1) = Zero3

\* An update has run with hands on an instance without interactionRadius.
RadiusUnsetTicked ==
  \E s \in Ticked("responsive") :
    /\ "interactionRadius" \notin DOMAIN sys[s].params
    /\ Len(frame[s].controls) = 2

-----------------------------------------------------------------------------
(* The sampled cohesion                                                    *)

\* The position of particle i (1-based) that the step of particle k read in
\* the last update of instance s: the loop moves the particles in place, so
\* the particles before k had moved already.
StoreAt(s, k, i) ==
  IF i < k THEN sys[s].particles[i].position
  ELSE frame[s].before[i].position

\* The pull toward a particle at offset toOther and distance dist:
\* cohesionStrength * (1 - dist / cohesionRadius) strong, within the radius.
CohesionPull(params, toOther, dist) ==
  IF dist < params.cohesionRadius
    THEN MultiplyScalar(
           Normalize(toOther),
           Mul(params.cohesionStrength,
               Unit - Div(dist, params.cohesionRadius)))
  ELSE Zero3

\* The pull of particle i on particle k in the last update of instance s.
PullOf(s, k, i) ==
  CohesionPull(sys[s].params,
               VSub(StoreAt(s, k, i), frame[s].before[k].position),
               DistanceTo(StoreAt(s, k, i), frame[s].before[k].position))

\* The particles at the indices 0, 10, 20, ... (0-based) other than k.
Sampled(s, k) ==
  {i \in 1..Len(sys[s].particles) : (i - 1) % 10 = 0 /\ i # k}

\* The sum of the pulls of the sampled particles from particle i on.
RECURSIVE SampledPulls(_, _, _)
SampledPulls(s, k, i) ==
  IF i > Len(sys[s].particles) THEN Zero3
  ELSE VAdd(IF i \in Sampled(s, k) THEN PullOf(s, k, i) ELSE Zero3,
            SampledPulls(s, k, i + 1))

\* (velocity + force) * viscosity, the force being -0.01 * position and the
\* pulls of the sampled particles
CohesiveVelocity(s, k) ==
  MultiplyScalar(
    VAdd(frame[s].before[k].velocity,
         VAdd(MultiplyScalar(frame[s].before[k].position, 0 - Dec(0, 1)),
              SampledPulls(s, k, 1))),
    sys[s].params.viscosity)

\* C20: the force of a cohesive update on a particle is -0.01 times its
\* position plus the pulls of the particles at the indices 0, 10, 20, ...
\* other than itself that are within cohesionRadius; the other particles
\* and the hand snapshot contribute nothing.
CohesionSampledEveryTenth ==
  \A s \in Ticked("cohesive") : \A k \in 1..Len(sys[s].particles) :
    MovedAs(sys[s].particles[k],
            SteppedParticle(frame[s].before[k], CohesiveVelocity(s, k),
                            sys[s].params.boundary))

\* An update under a snapshot with hands has moved a particle that both
\* particle 0 and particle 10 pulled, with a particle that is not sampled
\* within cohesionRadius of it.
SampledNeighboursPulled ==
  \E s \in Ticked("cohesive") :
    /\ Len(frame[s].controls) > 0
    /\ \E k \in 1..Len(sys[s].particles) :
         /\ Cardinality(Sampled(s, k)) = 2
         /\ \A i \in Sampled(s, k) : PullOf(s, k, i) # Zero3
         /\ \E i \in 1..Len(sys[s].particles) :
              /\ i # k
              /\ i \notin Sampled(s, k)
              /\ PullOf(s, k, i) # Zero3

-----------------------------------------------------------------------------
(* Particles at their center                                               *)

NeedleTicked == Ticked("needleSphere") \cup Ticked("needleSwarm")

\* The center and the target radius of particle k in the last update of
\* needle instance s.
TickCenter(s, k) ==
  IF sys[s].params.behavior = "needleSphere" THEN frame[s].center
  ELSE SwarmCenterOf(s, k)
TickRadius(s, k) ==
  IF sys[s].params.behavior = "needleSphere" THEN TargetRadius(s, k)
  ELSE SwarmTarget(s, k)

\* The stored direction of the particle before the update, as a unit
\* vector.
StoredDirection(s, k) == Normalize(frame[s].before[k].direction)

\* The point of the shell along a unit vector.
OnShellAlong(s, k, unit) ==
  VAdd(MultiplyScalar(unit, TickRadius(s, k)), TickCenter(s, k))

\* The particle started the update within 0.01 of its center.
StartedAtCenter(s, k) ==
  DistanceTo(frame[s].before[k].position, TickCenter(s, k)) <= Dec(0, 1)

\* The direction the update projects the particle along.
ProjectedAlong(s, k) ==
  IF StartedAtCenter(s, k) THEN StoredDirection(s, k)
  ELSE Normalize(VSub(frame[s].before[k].position, TickCenter(s, k)))

\* The position before the tangential move: the point of the shell, or in
\* the swarm 40% of the way to it when the particle is more than 0.5 off
\* the shell.
FarOffShell(s, k) ==
  /\ sys[s].params.behavior = "needleSwarm"
  /\ OffShell(frame[s].before[k].position, TickCenter(s, k),
              TickRadius(s, k)) > Dec(0, 50)
BeforeMove(s, k) ==
  IF FarOffShell(s, k)
    THEN VLerp(frame[s].before[k].position,
               OnShellAlong(s, k, ProjectedAlong(s, k)), Dec(0, 40))
  ELSE OnShellAlong(s, k, ProjectedAlong(s, k))

\* The position after the tangential move, before the re-projection.
AfterMove(s, k) ==
  VAdd(BeforeMove(s, k),
       MultiplyScalar(sys[s].particles[k].velocity, frame[s].deltaTime))

\* The particles the fallbacks are for: within 0.01 of the center at the
\* start of the update or after the tangential move.
AtCenter(s) ==
  {k \in 1..Len(sys[s].particles) :
     \/ StartedAtCenter(s, k)
     \/ DistanceTo(AfterMove(s, k), TickCenter(s, k)) <= Dec(0, 1)}

\* The particle is on its shell where its stored direction points, up to
\* the tangential move of the update.
PlacedAlongStored(s, k) ==
  /\ OffShell(sys[s].particles[k].position, TickCenter(s, k),
              TickRadius(s, k)) < Epsilon
  /\ DistanceTo(sys[s].particles[k].position,
                OnShellAlong(s, k, StoredDirection(s, k)))
       <= 3 * Mul(Length(sys[s].particles[k].velocity), frame[s].deltaTime)
            + Dec(0, 5)

\* The stored direction is the unit vector from the center to a position.
DirectionToward(s, k, position) ==
  DistanceTo(sys[s].particles[k].direction,
             Normalize(VSub(position, TickCenter(s, k)))) < Epsilon

\* C21, as stated: after a needle-sphere or needle-swarm update, a
\* particle that was within 0.01 of its center at the start or after the
\* tangential move is on its shell along its stored direction, and its
\* stored direction is the unit vector from the center to its position.
CenterFallbackDirectionAtEnd ==
  \A s \in NeedleTicked : \A k \in AtCenter(s) :
    /\ PlacedAlongStored(s, k)
    /\ DirectionToward(s, k, sys[s].particles[k].position)

\* C21, amended: it is on its shell along its stored direction; its stored
\* direction is the unit vector from the center to its position after a
\* needle-sphere update, and to its position before the tangential move
\* after a needle-swarm update.
CenterFallbackDirection ==
  \A s \in NeedleTicked : \A k \in AtCenter(s) :
    /\ PlacedAlongStored(s, k)
    /\ DirectionToward(s, k,
                       IF sys[s].params.behavior = "needleSphere"
                         THEN sys[s].particles[k].position
                       ELSE BeforeMove(s, k))

\* A needle-swarm update at a positive deltaTime has moved a particle that
\* started within 0.01 of the palm it follows, but not on it.
SwarmParticleLeftCenter ==
  \E s \in Ticked("needleSwarm") :
    /\ frame[s].deltaTime > 0
    /\ Len(frame[s].controls) = 1
    /\ \E k \in AtCenter(s) :
         /\ frame[s].before[k].position # TickCenter(s, k)
         /\ sys[s].particles[k].velocity # Zero3

\* A needle-sphere update has moved a particle that started on the center.
SphereParticleLeftCenter ==
  \E s \in Ticked("needleSphere") :
    /\ frame[s].deltaTime > 0
    /\ \E k \in AtCenter(s) :
         /\ frame[s].before[k].position = TickCenter(s, k)
         /\ sys[s].particles[k].velocity # Zero3

-----------------------------------------------------------------------------
(* The frame callback                                                      *)

\* C22: a frame callback of an instance computes deltaTime as the time
\* since the previous tick (since construction for the first one), stores
\* the new lastTime, calls update, then render, then registers the next
\* frame callback, each once; deltaTime is never negative.
TickInOrder ==
  \A s \in DOMAIN sys :
    frame[s].ran =>
      /\ sys[s].tickOps = << "deltaTime", "lastTime", "update", "render",
                             "requestAnimationFrame" >>
      /\ frame[s].deltaTime = (sys[s].lastTime - frame[s].since) * 100
      /\ frame[s].deltaTime >= 0
      /\ sys[s].lastTime <= clock
      /\ sys[s].bufferOps # << >>
      /\ sys[s].animationId # 0 =>
           [id |-> sys[s].animationId, sys |-> s] \in pending

\* A frame callback has run 100 ms after the first tick and has registered
\* the next one.
TickAfterTick ==
  \E s \in DOMAIN sys :
    /\ frame[s].ran
    /\ frame[s].since = 0
    /\ sys[s].lastTime = 100
    /\ frame[s].deltaTime = Dec(0, 10)
    /\ [id |-> sys[s].animationId, sys |-> s] \in pending

-----------------------------------------------------------------------------
(* Skeleton overlays                                                       *)

\* Instance s has one skeleton per hand of its snapshot, skeleton i at
\* (palm_i.x, palm_i.y - 1.5, palm_i.z).
SkeletonsAtPalms(self) ==
  /\ Len(self.skeletons) = Len(self.handControls)
  /\ \A i \in 1..Len(self.handControls) :
       /\ self.skeletons[i].x = self.handControls[i].palm.x
       /\ self.skeletons[i].y = self.handControls[i].palm.y - Dec(1, 50)
       /\ self.skeletons[i].z = self.handControls[i].palm.z

\* The step constructs instance s, calls its setHandControls or runs its
\* update.
CalledOrTicked(s) ==
  \/ s \notin DOMAIN sys
  \/ sys'[s].handControls # sys[s].handControls
  \/ delivered'[s] # delivered[s]
  \/ sys'[s].animationId \notin {0, sys[s].animationId}

SkeletonsFollowStep ==
  \A s \in DOMAIN sys' :
    sys'[s].params.behavior = "needleSwarm" /\ CalledOrTicked(s) =>
      SkeletonsAtPalms(sys'[s])

NoSkeletonsElsewhere ==
  \A s \in DOMAIN sys :
    sys[s].params.behavior # "needleSwarm" => sys[s].skeletons = << >>

\* C23: in needleSwarm mode, after every setHandControls call and after
\* every update, there is one skeleton per hand of the current snapshot,
\* skeleton i at (palm_i.x, palm_i.y - 1.5, palm_i.z); in the other modes
\* there is no skeleton in any reachable state.
SkeletonsFollowHands ==
  /\ []NoSkeletonsElsewhere
  /\ [][SkeletonsFollowStep]_vars

\* The needle-swarm instance of the page holds one skeleton under the palm
\* of a snapshot with one hand, after an update that ran with another
\* number of hands, while the other instances hold the same snapshot.
SkeletonsFollowed ==
  \E s \in DOMAIN sys :
    /\ sys[s].params.behavior = "needleSwarm"
    /\ frame[s].ran
    /\ Len(frame[s].controls) # 1
    /\ Len(sys[s].handControls) = 1
    /\ SkeletonsAtPalms(sys[s])
    /\ \E t \in DOMAIN sys :
         /\ sys[t].params.behavior # "needleSwarm"
         /\ sys[t].handControls = sys[s].handControls

-----------------------------------------------------------------------------
(* Assignment of the swarm particles to the centers                        *)

\* The needle-swarm instances whose last update ran with hands, and those
\* whose last update ran without.
TickedWithHands ==
  {s \in Ticked("needleSwarm") : Len(frame[s].controls) >= 1}
TickedWithoutHands ==
  {s \in Ticked("needleSwarm") : Len(frame[s].controls) = 0}

\* The indices of the centers of the last update of instance s.
CenterIndices(s) == 0..(Len(frame[s].controls) - 1)

\* The distance of particle k, where it was before the update, to center j
\* (0-based).
ToCenter(s, k, j) ==
  DistanceTo(frame[s].before[k].position, PalmOf(frame[s].controls[j + 1]))

\* The particle had a center of the update assigned before the update.
HadCenter(s, k) == frame[s].before[k].assignedCenterIndex \in CenterIndices(s)

\* Center j is the nearest one of particle k, the lowest one on a tie.
NearestCenter(s, k, j) ==
  \A o \in CenterIndices(s) :
    /\ ToCenter(s, k, j) <= ToCenter(s, k, o)
    /\ ToCenter(s, k, j) = ToCenter(s, k, o) => j <= o

\* C24: after a needle-swarm tick with n >= 1 hands every particle has an
\* assignedCenterIndex in 0..n-1; a particle that had none, or one that is
\* n or more, has its nearest center (the lowest on a tie), whatever the
\* 0.8 test says; a particle that had one below n changes it only to a
\* center closer than 0.8 times the distance to its own.
AssignedWithinRange ==
  \A s \in TickedWithHands : \A k \in 1..Len(sys[s].particles) :
    /\ sys[s].particles[k].assignedCenterIndex \in CenterIndices(s)
    /\ ~HadCenter(s, k) =>
         NearestCenter(s, k, sys[s].particles[k].assignedCenterIndex)
    /\ /\ HadCenter(s, k)
       /\ sys[s].particles[k].assignedCenterIndex
            # frame[s].before[k].assignedCenterIndex
       => ToCenter(s, k, sys[s].particles[k].assignedCenterIndex)
            < Mul(ToCenter(s, k, frame[s].before[k].assignedCenterIndex),
                  Dec(0, 80))

\* A tick with one hand has given the center 0 to a particle that followed
\* center 1.
StaleIndexReassigned ==
  \E s \in TickedWithHands : \E k \in 1..Len(sys[s].particles) :
    /\ Len(frame[s].controls) = 1
    /\ frame[s].before[k].assignedCenterIndex = 1
    /\ sys[s].particles[k].assignedCenterIndex = 0

\* A tick with two hands has given the center 0 to a particle without a
\* center that is as far from center 1.
TieTakesLowest ==
  \E s \in TickedWithHands : \E k \in 1..Len(sys[s].particles) :
    /\ Len(frame[s].controls) = 2
    /\ frame[s].before[k].assignedCenterIndex = Undefined
    /\ ToCenter(s, k, 0) = ToCenter(s, k, 1)
    /\ sys[s].particles[k].assignedCenterIndex = 0

\* C25: a needle-swarm tick without hands leaves the assignedCenterIndex
\* of every particle as it is, and a tick with hands keeps an index that is
\* in range unless a center is closer than 0.8 times the distance to the
\* particle's own, even when another center is the nearest one.
AssignmentSurvivesNoHands ==
  /\ \A s \in TickedWithoutHands : \A k \in 1..Len(sys[s].particles) :
       sys[s].particles[k].assignedCenterIndex
         = frame[s].before[k].assignedCenterIndex
  /\ \A s \in TickedWithHands : \A k \in 1..Len(sys[s].particles) :
       /\ HadCenter(s, k)
       /\ \A j \in CenterIndices(s) :
            ToCenter(s, k, j)
              >= Mul(ToCenter(s, k, frame[s].before[k].assignedCenterIndex),
                     Dec(0, 80))
       => sys[s].particles[k].assignedCenterIndex
            = frame[s].before[k].assignedCenterIndex

\* The third tick, with two hands, has kept the center of a particle
\* although the other center is nearer, after a tick that kept it without
\* hands.
IndexKeptAfterNoHands ==
  \E s \in TickedWithHands : \E k \in 1..Len(sys[s].particles) :
    /\ ticks = MaxTicks + 1
    /\ HadCenter(s, k)
    /\ sys[s].particles[k].assignedCenterIndex
         = frame[s].before[k].assignedCenterIndex
    /\ ~NearestCenter(s, k, sys[s].particles[k].assignedCenterIndex)
    /\ OffShell(frame[s].before[k].position, Zero3, SwarmTarget(s, k))
         < Epsilon

\* A tick without hands has left a particle with the center 1.
IndexKeptWithoutHands ==
  \E s \in TickedWithoutHands : \E k \in 1..Len(sys[s].particles) :
    /\ frame[s].before[k].assignedCenterIndex = 1
    /\ sys[s].particles[k].assignedCenterIndex = 1

-----------------------------------------------------------------------------
(* update(deltaTime) of the responsive and cohesive behaviours             *)

\* The positions and velocities of a particle store.
Motion(particles) ==
  [k \in 1..Len(particles) |->
     [position |-> particles[k].position,
      velocity |-> particles[k].velocity]]

\* The updates of the instances s and t started from the same particles,
\* the same snapshot and the same draws of Math.random().
SameTick(s, t) ==
  /\ frame[s].ran
  /\ frame[t].ran
  /\ sys[s].params = sys[t].params
  /\ sys[s].params.behavior \in {"responsive", "cohesive"}
  /\ Motion(frame[s].before) = Motion(frame[t].before)
  /\ frame[s].controls = frame[t].controls
  /\ frame[s].jitter = frame[t].jitter

\* C26: two updates of the responsive or cohesive behaviour that start from
\* the same particles, the same snapshot and the same draws end with the
\* same positions and velocities, whatever their deltaTime arguments.
UpdateIgnoresDeltaTime ==
  \A s \in DOMAIN sys : \A t \in DOMAIN sys :
    SameTick(s, t) => Motion(sys[s].particles) = Motion(sys[t].particles)

\* Two such updates, one with 1/60 s and one with 5 s, have moved the
\* particles under a hand.
TwinsUpdatedApart ==
  \E s \in DOMAIN sys : \E t \in DOMAIN sys :
    /\ SameTick(s, t)
    /\ frame[s].deltaTime = Unit \div 60
    /\ frame[t].deltaTime = 5 * Unit
    /\ Len(frame[s].controls) > 0
    /\ Motion(sys[s].particles) # Motion(frame[s].before)

-----------------------------------------------------------------------------
(* startAnimation and stopAnimation                                        *)

\* The frame callbacks of instance s that are pending.
PendingOf(s) == {cb \in pending : cb.sys = s}

\* C27: under any sequence of startAnimation, stopAnimation and display
\* frames, at most one frame callback of an instance is pending, and none
\* is pending while animationId is null, that is, from the return of
\* stopAnimation to the next startAnimation no tick of the instance runs.
OneLoopPerInstance ==
  \A s \in DOMAIN sys :
    /\ Cardinality(PendingOf(s)) <= 1
    /\ sys[s].animationId = 0 => PendingOf(s) = {}

-----------------------------------------------------------------------------
(* Unmounting the component                                                *)

\* No frame loop of the simulation and no capture of the handler runs.
AllStopped ==
  /\ pending = {}
  /\ ~mediaPipe.capturing
  /\ ~mediaPipe.stream
  /\ ~mediaPipe.interval

\* C28: when the component is unmounted for good, at whatever point of
\* init(), then eventually no frame loop of a simulation that init()
\* constructs and no capture of a handler that it constructs is running.
UnmountStopsEverything ==
  <>[](~component.mounted) => <>[]AllStopped

-----------------------------------------------------------------------------
(* OptimizedLiquidSimulation.dispose() and the resize listener             *)

\* C29: once dispose() has returned, no step calls an operation on an
\* instance of the simulation: no tick runs on it and no window resize
\* reaches its handleResize, so a disposed instance stays as it is.
DisposedLeftAlone ==
  [][\A s \in DOMAIN sys :
       sys[s].teardown # << >> => sys'[s] = sys[s]]_vars

-----------------------------------------------------------------------------
(* Results whose processing throws                                         *)

\* C30: isProcessing is false whenever processResults is not running, also
\* after results during whose processing drawImage or the subscriber threw,
\* and results that come at least 1000 / 30 ms after the last admitted ones
\* are admitted whether or not the results before them made a statement
\* throw.
ThrowReleasesProcessing ==
  /\ ~mediaPipe.isProcessing
  /\ \A h \in Processed :
       frame[h].admitted <=> (frame[h].at - frame[h].since) * 30 >= Kilo

\* Results have been admitted and handed to the subscriber, without a
\* throw, after results that made drawImage or the subscriber throw.
AdmittedAfterThrow ==
  \E h \in Processed :
    /\ frame[h].afterThrow
    /\ frame[h].admitted
    /\ frame[h].thrown = "none"
    /\ Len(frame[h].calls) = 1

\* Results have been admitted after results on which the subscriber threw,
\* and the subscriber is called again.
AdmittedAfterSubscriberThrow ==
  \E h \in Processed :
    /\ frame[h].afterThrow
    /\ frame[h].admitted
    /\ frame[h].thrown = "handControlsCallback"
=============================================================================
